---- MODULE Spec2Model ----
(***************************************************************************)
(* State-machine model of zune-png's PngDecoder (src/zune-png/src/        *)
(* decoder.rs).  The decoder owns a byte cursor over an immutable input,   *)
(* the image metadata, the palette, the accumulated IDAT bytes and four    *)
(* flags.  Its public operations decode_headers, decode_into, decode_raw   *)
(* and decode are the actions; the accessors are operators on the state.   *)
(* The image operation RgbToGrayScale of zune-image (src/zune-image/src/   *)
(* impls/grayscale.rs) acts on an Image, the variable image.               *)
(***************************************************************************)
EXTENDS Integers, Sequences, FiniteSets, TLC

VARIABLES
    stream,          \* ZByteReader: the immutable input bytes
    position,        \* ZByteReader: read index into stream (0-based)
    options,         \* DecoderOptions: [confirm_crc, byte_endian]
    is_le,           \* endianness of the host the decoder was built for
    png_info,        \* PngInfo
    palette,         \* Vec<PLTEEntry>
    idat_chunks,     \* Vec<u8>: accumulated IDAT payload
    previous_stride, \* Vec<u8>: scratch row
    trns_bytes,      \* [u16; 4]
    seen_hdr, seen_ptle, seen_headers, seen_trns,
    history,         \* history: the chunks framed and the handlers run, in order
    rows,            \* history: the row steps of the last raster reconstruction
    out,             \* the caller's buffer of the last decode_into / the returned Vec
    ret,             \* outcome of the last public operation
    image            \* zune-image Image: [colorspace, width, height, channels]

vars == <<stream, position, options, is_le, png_info, palette, idat_chunks,
          previous_stride, trns_bytes, seen_hdr, seen_ptle, seen_headers,
          seen_trns, history, rows, out, ret, image>>

----------------------------------------------------------------------------
(* Bounds of the model *)

\* largest image width and height among the inputs
MaxDim == 2

----------------------------------------------------------------------------
(* Bytes and big-endian integers *)

Byte == 0 .. 255

\* a slice s[from .. from+n) with 0-based from
Slice(s, from, n) == SubSeq(s, from + 1, from + n)

\* u32::from_be_bytes
U32FromBe(b) == ((b[1] * 256 + b[2]) * 256 + b[3]) * 256 + b[4]

\* u16::from_be_bytes
U16FromBe(b) == b[1] * 256 + b[2]

\* u32::to_be_bytes, for values below 2^24 (all the inputs of the model)
U32ToBe(n) == << 0, (n \div 65536) % 256, (n \div 256) % 256, n % 256 >>

Min(a, b) == IF a < b THEN a ELSE b

\* usize::saturating_sub
SatSub(a, b) == IF a > b THEN a - b ELSE 0

\* vec![x; n]
Repeat(x, n) == [i \in 1 .. n |-> x]

----------------------------------------------------------------------------
(* Errors.  PngDecodeErrors by kind (spec section 7):                      *)
(*   BadSignature, NoIhdr (GenericStatic "First chunk not IHDR"),          *)
(*   NotEnoughBytes (the cursor's error, converted by `?`),                *)
(*   BadChunk (Generic "Not enough bytes for chunk ...", header parsers),  *)
(*   BadCrc(stored, computed), TooSmallOutput(required, given),            *)
(*   ZlibError, EmptyPalette, Generic, GenericStatic, NotImplemented.      *)

Err(kind) == [kind |-> kind, a |-> 0, b |-> 0]
Err2(kind, x, y) == [kind |-> kind, a |-> x, b |-> y]
NoErr == Err("none")

----------------------------------------------------------------------------
(* Chunk names *)

N_IHDR == << 73, 72, 68, 82 >>
N_tRNS == << 116, 82, 78, 83 >>
N_PLTE == << 80, 76, 84, 69 >>
N_IDAT == << 73, 68, 65, 84 >>
N_IEND == << 73, 69, 78, 68 >>
N_pHYs == << 112, 72, 89, 115 >>
N_tIME == << 116, 73, 77, 69 >>
N_gAMA == << 103, 65, 77, 65 >>
N_acTL == << 97, 99, 84, 76 >>
N_fcTL == << 102, 99, 84, 76 >>
N_iCCP == << 105, 67, 67, 80 >>
N_iTXt == << 105, 84, 88, 116 >>
N_eXIf == << 101, 88, 73, 102 >>
N_zTXt == << 122, 84, 88, 116 >>
N_tEXt == << 116, 69, 88, 116 >>
\* a private ancillary chunk no parser knows
N_prVt == << 112, 114, 86, 116 >>

PNG_SIGNATURE == << 137, 80, 78, 71, 13, 10, 26, 10 >>

\* the match of read_chunk_header on the chunk name
ChunkTypeOf(name) ==
    CASE name = N_IHDR -> "IHDR"
      [] name = N_tRNS -> "tRNS"
      [] name = N_PLTE -> "PLTE"
      [] name = N_IDAT -> "IDAT"
      [] name = N_IEND -> "IEND"
      [] name = N_pHYs -> "pHYs"
      [] name = N_tIME -> "tIME"
      [] name = N_gAMA -> "gAMA"
      [] name = N_acTL -> "acTL"
      [] name = N_fcTL -> "fcTL"
      [] name = N_iCCP -> "iCCP"
      [] name = N_iTXt -> "iTXt"
      [] name = N_eXIf -> "eXIf"
      [] name = N_zTXt -> "zTXt"
      [] name = N_tEXt -> "tEXt"
      [] OTHER -> "unkn"

----------------------------------------------------------------------------
(* CRC-32 collaborator (crate::crc::crc32_slice8 with the final            *)
(* complement): a checksum of a byte string in which any change of a       *)
(* single byte changes the result.                                         *)

RECURSIVE CrcSum(_, _, _)
CrcSum(bytes, lo, hi) ==
    IF lo > hi THEN 0
    ELSE IF lo = hi THEN (lo * (bytes[lo] + 1)) % 65521
    ELSE LET mid == (lo + hi) \div 2
         IN (CrcSum(bytes, lo, mid) + CrcSum(bytes, mid + 1, hi)) % 65521

crc32(bytes) == (CrcSum(bytes, 1, Len(bytes)) + 1) % 65521

----------------------------------------------------------------------------
(* Byte cursor (zune_core::bytestream::ZByteReader), over stream s with    *)
(* read index pos.                                                         *)

\* ZByteReader::has(n)
has(s, pos, n) == pos + n <= Len(s)

\* ZByteReader::remaining()
remaining(s, pos) == Len(s) - pos

\* ZByteReader::peek_at(offset, n): Ok iff the span lies inside the stream
peek_ok(s, pos, offset, n) == pos + offset + n <= Len(s)
peek_at(s, pos, offset, n) == Slice(s, pos + offset, n)

\* ZByteReader::rewind(n): never past the start
rewind(pos, n) == SatSub(pos, n)

\* ZByteReader::skip(n)
skip(pos, n) == pos + n

----------------------------------------------------------------------------
(* The decoder as a record, so that the operations can be written as       *)
(* functions from decoder to decoder.                                      *)

PngInfoDefault ==
    [width |-> 0, height |-> 0, depth |-> 0, color |-> "Unknown",
     component |-> 0, interlace_method |-> "Unknown",
     filter_method |-> "Unknown", gamma |-> << >>, ancillary |-> << >>]

\* PngDecoder::new_with_options
new_with_options(data, opts) ==
    [position |-> 0, options |-> opts, png_info |-> PngInfoDefault,
     palette |-> << >>, idat_chunks |-> << >>, previous_stride |-> << >>,
     trns_bytes |-> << 0, 0, 0, 0 >>, seen_hdr |-> FALSE, seen_ptle |-> FALSE,
     seen_headers |-> FALSE, seen_trns |-> FALSE, history |-> << >>,
     rows |-> << >>]

Self ==
    [position |-> position, options |-> options, png_info |-> png_info,
     palette |-> palette, idat_chunks |-> idat_chunks,
     previous_stride |-> previous_stride, trns_bytes |-> trns_bytes,
     seen_hdr |-> seen_hdr, seen_ptle |-> seen_ptle,
     seen_headers |-> seen_headers, seen_trns |-> seen_trns,
     history |-> history, rows |-> rows]

Install(d) ==
    /\ position' = d.position
    /\ options' = d.options
    /\ png_info' = d.png_info
    /\ palette' = d.palette
    /\ idat_chunks' = d.idat_chunks
    /\ previous_stride' = d.previous_stride
    /\ trns_bytes' = d.trns_bytes
    /\ seen_hdr' = d.seen_hdr
    /\ seen_ptle' = d.seen_ptle
    /\ seen_headers' = d.seen_headers
    /\ seen_trns' = d.seen_trns
    /\ history' = d.history
    /\ rows' = d.rows

Ok(d) == [ok |-> TRUE, err |-> NoErr, d |-> d]
Fail(e, d) == [ok |-> FALSE, err |-> e, d |-> d]

----------------------------------------------------------------------------
(* Chunk framer *)

\* faulty variant: the CRCs are never compared
CrcMismatch_Never(crc, calc_crc) == FALSE

\* the comparison of the stored and the recomputed CRC
CrcMismatch(crc, calc_crc) == crc # calc_crc

\* PngDecoder::read_chunk_header.  The `crc` feature is enabled.
\* Result: [ok, err, pos, header, seen]; seen holds the length and name
\* read, if both were.
read_chunk_header(s, pos0, confirm_crc) ==
    IF ~has(s, pos0, 4)
    THEN [ok |-> FALSE, err |-> Err("NotEnoughBytes"), pos |-> pos0, seen |-> << >>]
    ELSE
    LET chunk_length == U32FromBe(Slice(s, pos0, 4))
        pos1 == pos0 + 4
    IN
    IF ~has(s, pos1, 4)
    THEN [ok |-> FALSE, err |-> Err("NotEnoughBytes"), pos |-> pos1, seen |-> << >>]
    ELSE
    LET chunk_type_int == Slice(s, pos1, 4)
        pos2 == pos1 + 4
        seen == << [at |-> pos2, length |-> chunk_length, chunk |-> chunk_type_int] >>
    IN
    IF ~peek_ok(s, pos2, chunk_length, 4)
    THEN [ok |-> FALSE, err |-> Err("NotEnoughBytes"), pos |-> pos2, seen |-> seen]
    ELSE
    LET crc == U32FromBe(peek_at(s, pos2, chunk_length, 4))
        header == [length |-> chunk_length,
                   chunk_type |-> ChunkTypeOf(chunk_type_int),
                   chunk |-> chunk_type_int,
                   crc |-> crc,
                   at |-> pos2]
    IN
    IF ~has(s, pos2, chunk_length + 4)
    THEN [ok |-> FALSE, err |-> Err("BadChunk"), pos |-> pos2, seen |-> seen]
    ELSE IF confirm_crc
    THEN LET back == rewind(pos2, 4)
             bytes == peek_at(s, back, 0, chunk_length + 4)
             calc_crc == crc32(bytes)
         IN IF CrcMismatch(crc, calc_crc)
            THEN [ok |-> FALSE, err |-> Err2("BadCrc", crc, calc_crc), pos |-> back,
                  seen |-> seen]
            ELSE [ok |-> TRUE, err |-> NoErr, pos |-> skip(back, 4),
                  header |-> header, seen |-> seen]
    ELSE [ok |-> TRUE, err |-> NoErr, pos |-> pos2, header |-> header, seen |-> seen]

----------------------------------------------------------------------------
(* Header parsers (crate::headers).  Each is entered with the cursor at    *)
(* the first payload byte and leaves it past the chunk's CRC.              *)

\* history: the handler of the chunk whose payload starts at header.at is
\* entered with the cursor at d.position
Ran(d, header) ==
    [d EXCEPT !.history = Append(@, [ev |-> "run", tag |-> header.chunk_type,
                                     at |-> header.at, length |-> header.length,
                                     cursor |-> d.position])]

\* history: a chunk header was read; its payload starts at offset at
Framed(d, f) ==
    [d EXCEPT !.history = Append(@, [ev |-> "frame", tag |-> ChunkTypeOf(f.chunk),
                                     at |-> f.at, length |-> f.length,
                                     cursor |-> f.at])]

\* PngColor::from_int
PngColorOf(b) ==
    CASE b = 0 -> "Luma"
      [] b = 2 -> "RGB"
      [] b = 3 -> "Palette"
      [] b = 4 -> "LumaA"
      [] b = 6 -> "RGBA"
      [] OTHER -> "Unknown"

\* PngColor::num_components
num_components(color) ==
    CASE color = "Luma" -> 1
      [] color = "Palette" -> 1
      [] color = "LumaA" -> 2
      [] color = "RGB" -> 3
      [] color = "RGBA" -> 4
      [] OTHER -> 0

\* the (colour, depth) pairs PNG permits
DepthPermitted(color, depth) ==
    CASE color = "Luma" -> depth \in {1, 2, 4, 8, 16}
      [] color = "Palette" -> depth \in {1, 2, 4, 8}
      [] color \in {"RGB", "LumaA", "RGBA"} -> depth \in {8, 16}
      [] OTHER -> FALSE

\* parse_ihdr
parse_ihdr(s, d0, header) ==
    LET d == Ran(d0, header)
        p == Slice(s, d.position, 13)
        width == U32FromBe(SubSeq(p, 1, 4))
        height == U32FromBe(SubSeq(p, 5, 8))
        depth == p[9]
        color == PngColorOf(p[10])
    IN
    IF d.seen_hdr \/ header.length # 13 THEN Fail(Err("BadChunk"), d)
    ELSE IF width = 0 \/ height = 0 THEN Fail(Err("BadChunk"), d)
    ELSE IF ~DepthPermitted(color, depth) THEN Fail(Err("BadChunk"), d)
    ELSE IF p[11] # 0 \/ p[12] # 0 \/ p[13] \notin {0, 1} THEN Fail(Err("BadChunk"), d)
    ELSE Ok([d EXCEPT
               !.png_info = [@ EXCEPT !.width = width, !.height = height,
                                      !.depth = depth, !.color = color,
                                      !.component = num_components(color),
                                      !.filter_method = "None",
                                      !.interlace_method =
                                          IF p[13] = 0 THEN "Standard" ELSE "Adam7"],
               !.position = skip(d.position, 13 + 4),
               !.seen_hdr = TRUE])

\* PLTEEntry::default
PLTEEntryDefault == [red |-> 0, green |-> 0, blue |-> 0, alpha |-> 255]

\* parse_plte: the palette is a table of 256 entries, the first length / 3 of
\* them taken from the payload
parse_plte(s, d0, header) ==
    LET d == Ran(d0, header)
        n == header.length \div 3
        p == Slice(s, d.position, header.length)
    IN
    IF header.length % 3 # 0 \/ header.length > 768 THEN Fail(Err("BadChunk"), d)
    ELSE IF ~d.seen_hdr \/ d.png_info.color \in {"Luma", "LumaA"}
    THEN Fail(Err("BadChunk"), d)
    ELSE Ok([d EXCEPT
               !.palette = [i \in 1 .. 256 |->
                              IF i <= n
                              THEN [red |-> p[3 * i - 2], green |-> p[3 * i - 1],
                                    blue |-> p[3 * i], alpha |-> 255]
                              ELSE PLTEEntryDefault],
               !.position = skip(d.position, header.length + 4),
               !.seen_ptle = TRUE])

\* parse_trns
parse_trns(s, d0, header) ==
    LET d == Ran(d0, header)
        p == Slice(s, d.position, header.length)
        color == d.png_info.color
        need == CASE color = "Luma" -> 2 [] color = "RGB" -> 6 [] OTHER -> 0
    IN
    IF header.length < need THEN Fail(Err("BadChunk"), d)
    ELSE Ok([d EXCEPT
               !.trns_bytes =
                   CASE color = "Luma" -> << U16FromBe(SubSeq(p, 1, 2)), 0, 0, 0 >>
                     [] color = "RGB" -> << U16FromBe(SubSeq(p, 1, 2)),
                                            U16FromBe(SubSeq(p, 3, 4)),
                                            U16FromBe(SubSeq(p, 5, 6)), 0 >>
                     [] OTHER -> @,
               !.palette =
                   IF color = "Palette"
                   THEN [i \in 1 .. Len(@) |->
                           IF i <= header.length THEN [@[i] EXCEPT !.alpha = p[i]]
                           ELSE @[i]]
                   ELSE @,
               !.position = skip(d.position, header.length + 4),
               !.seen_trns = TRUE])

\* parse_idat
parse_idat(s, d0, header) ==
    LET d == Ran(d0, header) IN
    Ok([d EXCEPT
          !.idat_chunks = @ \o Slice(s, d.position, header.length),
          !.position = skip(d.position, header.length + 4)])

\* parse_gama
parse_gama(s, d0, header) ==
    LET d == Ran(d0, header) IN
    Ok([d EXCEPT
          !.png_info = [@ EXCEPT !.gamma =
                           IF header.length = 4
                           THEN << U32FromBe(Slice(s, d.position, 4)) >> ELSE @],
          !.position = skip(d.position, header.length + 4)])

\* parse_actl, parse_time, parse_exif, parse_iccp, parse_itxt, parse_ztxt,
\* parse_text: the chunk is recorded in its collection and the cursor moves on
parse_ancillary(s, d0, header) ==
    LET d == Ran(d0, header) IN
    Ok([d EXCEPT
          !.png_info = [@ EXCEPT !.ancillary =
                           Append(@, << header.chunk_type, header.length >>)],
          !.position = skip(d.position, header.length + 4)])

\* crate::options::default_chunk_handler: skip payload and CRC
default_chunk_handler(s, d0, header) ==
    LET d == Ran(d0, header) IN
    Ok([d EXCEPT !.position = skip(d.position, header.length + 4)])

----------------------------------------------------------------------------
(* decode_headers *)

\* the match of decode_headers on header.chunk_type, fcTL and IEND excepted
Dispatch(s, d, header) ==
    LET t == header.chunk_type IN
    CASE t = "IHDR" -> parse_ihdr(s, d, header)
      [] t = "PLTE" -> parse_plte(s, d, header)
      [] t = "IDAT" -> parse_idat(s, d, header)
      [] t = "tRNS" -> parse_trns(s, d, header)
      [] t = "gAMA" -> parse_gama(s, d, header)
      [] t \in {"acTL", "tIME", "eXIf", "iCCP", "iTXt", "zTXt", "tEXt"} ->
            parse_ancillary(s, d, header)
      [] OTHER -> default_chunk_handler(s, d, header)

\* faulty variant: a second fcTL chunk is treated as the first
FctlEndsHeaders_Never(seen_first_fctl) == FALSE

\* the test of the fcTL arm: a second fcTL chunk leaves the loop
FctlEndsHeaders(seen_first_fctl) == seen_first_fctl

\* the loop of decode_headers; Ok when it is left by a break
\* faulty variant: the loop is also left at the pixel data
EndsHeaders_AtIdat(chunk_type) == chunk_type \in {"IEND", "IDAT"}

\* the chunk at which decode_headers leaves its loop: IEND
EndsHeaders(chunk_type) == chunk_type = "IEND"

RECURSIVE HeaderLoop(_, _, _)
HeaderLoop(s, d, seen_first_fctl) ==
    LET \* the result of a handler ends the loop or starts the next round
        Handled(r, fctl) == IF ~r.ok THEN r ELSE HeaderLoop(s, r.d, fctl)
        \* the match on the chunk read, d1 being the decoder after the read
        Match(h, d1) ==
            IF ~h.ok THEN Fail(h.err, d1)
            ELSE IF EndsHeaders(h.header.chunk_type) THEN Ok(d1)
            ELSE IF h.header.chunk_type = "fcTL"
            THEN IF FctlEndsHeaders(seen_first_fctl) THEN Ok(d1)
                 ELSE Handled(default_chunk_handler(s, d1, h.header), TRUE)
            ELSE Handled(Dispatch(s, d1, h.header), seen_first_fctl)
        Read(h) ==
            Match(h, [(IF h.seen = << >> THEN d ELSE Framed(d, h.seen[1]))
                         EXCEPT !.position = h.pos])
    IN Read(read_chunk_header(s, d.position, d.options.confirm_crc))

\* the signature test of decode_headers
SignatureOk(signature) == signature = PNG_SIGNATURE

\* faulty variant: the first chunk is not looked at
FirstChunkIsIhdr_Any(name) == TRUE

\* the test of decode_headers that the first chunk is IHDR
FirstChunkIsIhdr(name) == name = N_IHDR

\* faulty variant: the early return is missing
HeadersAlreadyDecoded_Never(d) == FALSE

\* the early return of decode_headers
HeadersAlreadyDecoded(d) == d.seen_headers

\* PngDecoder::decode_headers
decode_headers(s, d) ==
    IF HeadersAlreadyDecoded(d) THEN Ok(d)
    ELSE IF ~has(s, d.position, 8) THEN Fail(Err("NotEnoughBytes"), d)
    ELSE
    LET signature == Slice(s, d.position, 8)
        d1 == [d EXCEPT !.position = d.position + 8]
        Looped(r) == IF ~r.ok THEN r ELSE Ok([r.d EXCEPT !.seen_headers = TRUE])
    IN
    IF ~SignatureOk(signature) THEN Fail(Err("BadSignature"), d1)
    ELSE IF ~peek_ok(s, d1.position, 4, 4) THEN Fail(Err("NotEnoughBytes"), d1)
    ELSE IF ~FirstChunkIsIhdr(peek_at(s, d1.position, 4, 4)) THEN Fail(Err("NoIhdr"), d1)
    ELSE Looped(HeaderLoop(s, d1, FALSE))

----------------------------------------------------------------------------
(* Accessors.  None is the empty sequence, Some(x) is << x >>.             *)

None == << >>
Some(x) == << x >>

\* faulty variant: the seen_hdr guard is missing
get_dimensions_Unguarded(d) == Some(<< d.png_info.width, d.png_info.height >>)

\* PngDecoder::get_dimensions
get_dimensions(d) ==
    IF ~d.seen_hdr THEN None ELSE Some(<< d.png_info.width, d.png_info.height >>)

\* PngDecoder::get_depth
get_depth(d) ==
    IF ~d.seen_hdr THEN None
    ELSE IF d.png_info.depth \in {1, 2, 4, 8} THEN Some("Eight")
    ELSE IF d.png_info.depth = 16 THEN Some("Sixteen")
    ELSE Some("unreachable")

\* faulty variant: a tRNS chunk does not promote the colour space
get_colorspace_NoPromotion(d) ==
    IF ~d.seen_hdr THEN None
    ELSE IF d.png_info.color = "Palette" THEN Some("RGB")
    ELSE Some(d.png_info.color)

\* PngDecoder::get_colorspace
get_colorspace(d) ==
    IF ~d.seen_hdr THEN None
    ELSE IF ~d.seen_trns
    THEN CASE d.png_info.color = "Palette" -> Some("RGB")
           [] d.png_info.color = "Luma" -> Some("Luma")
           [] d.png_info.color = "LumaA" -> Some("LumaA")
           [] d.png_info.color = "RGB" -> Some("RGB")
           [] d.png_info.color = "RGBA" -> Some("RGBA")
           [] OTHER -> Some("unreachable")
    ELSE CASE d.png_info.color \in {"Palette", "RGB"} -> Some("RGBA")
           [] d.png_info.color = "Luma" -> Some("LumaA")
           [] d.png_info.color = "LumaA" -> Some("LumaA")
           [] d.png_info.color = "RGBA" -> Some("RGBA")
           [] OTHER -> Some("unreachable")

\* ColorSpace::num_components
cs_num_components(cs) ==
    CASE cs = "Luma" -> 1
      [] cs = "LumaA" -> 2
      [] cs = "RGB" -> 3
      [] cs = "RGBA" -> 4
      [] OTHER -> 0

\* faulty variant: 16-bit samples counted as one byte
SampleBytes_One(depth) == 1

\* the byte width of one output sample
SampleBytes(depth) == IF depth = 16 THEN 2 ELSE 1

\* PngDecoder::output_buffer_size
output_buffer_size(d) ==
    IF ~d.seen_hdr THEN None
    ELSE LET out_n == cs_num_components(get_colorspace(d)[1]) IN
         Some(d.png_info.width * d.png_info.height * out_n
              * SampleBytes(d.png_info.depth))

\* PngDecoder::get_info
get_info(d) == IF d.seen_headers THEN Some(d.png_info) ELSE None

\* PngDecoder::byte_endian
byte_endian(d) == d.options.byte_endian

----------------------------------------------------------------------------
(* Buffers.  A buffer is a sequence; offsets are 0-based as in the code.   *)

\* buf[start .. start+Len(bytes)) = bytes
WriteAt(buf, start, bytes) ==
    [i \in 1 .. Len(buf) |->
        IF i > start /\ i <= start + Len(bytes) THEN bytes[i - start] ELSE buf[i]]

\* Vec::resize(n, 0) when the vector is shorter than n
GrowTo(v, n) == IF Len(v) < n THEN v \o Repeat(0, n - Len(v)) ELSE v

RECURSIVE TwoTo(_)
TwoTo(n) == IF n <= 0 THEN 1 ELSE 2 * TwoTo(n - 1)

----------------------------------------------------------------------------
(* Filter kernels (crate::filters), spec section 4.5.  raw is the filtered *)
(* scanline, prev_row the reconstructed row above, c the byte distance to  *)
(* the left neighbour.  Each returns the reconstructed bytes.              *)

Abs(x) == IF x < 0 THEN 0 - x ELSE x

\* the Paeth predictor
paeth(a, b, c) ==
    LET p == a + b - c
        pa == Abs(p - a)
        pb == Abs(p - b)
        pc == Abs(p - c)
    IN IF pa <= pb /\ pa <= pc THEN a ELSE IF pb <= pc THEN b ELSE c

\* the predictor of one byte under a filter
Predict(filter, a, b, c) ==
    CASE filter = "None" -> 0
      [] filter = "Sub" -> a
      [] filter = "Up" -> b
      [] filter = "Average" -> (a + b) \div 2
      [] filter = "Paeth" -> paeth(a, b, c)
      [] filter = "PaethFirst" -> a
      [] filter = "AvgFirst" -> a \div 2
      [] OTHER -> 0

\* does the filter read the previous row
ReadsPrevRow(filter) == filter \in {"Up", "Average", "Paeth"}

RECURSIVE Unfilter(_, _, _, _, _, _)
Unfilter(filter, prev_row, raw, c, k, acc) ==
    IF k > Len(raw) THEN acc
    ELSE LET a == IF k > c THEN acc[k - c] ELSE 0
             b == IF ReadsPrevRow(filter) THEN prev_row[k] ELSE 0
             cc == IF ReadsPrevRow(filter) /\ k > c THEN prev_row[k - c] ELSE 0
         IN Unfilter(filter, prev_row, raw, c, k + 1,
                     Append(acc, (raw[k] + Predict(filter, a, b, cc)) % 256))

\* FilterMethod::from_int
FilterMethodOf(b) ==
    CASE b = 0 -> "None"
      [] b = 1 -> "Sub"
      [] b = 2 -> "Up"
      [] b = 3 -> "Average"
      [] b = 4 -> "Paeth"
      [] OTHER -> "Unknown"

\* faulty variant: the first row is not specialised
FirstRowFilter_Identity(filter) == filter

\* the first-row substitution of create_png_image_raw
FirstRowFilter(filter) ==
    CASE filter = "Paeth" -> "PaethFirst"
      [] filter = "Up" -> "None"
      [] filter = "Average" -> "AvgFirst"
      [] OTHER -> filter

----------------------------------------------------------------------------
(* Expansion kernels (crate::utils), spec section 4.6 *)

\* sample j (0-based) of a row packed MSB-first at the given depth
PackedSample(input, depth, j) ==
    LET byte == input[(j * depth) \div 8 + 1]
        shift == 8 - depth - ((j * depth) % 8)
    IN (byte \div TwoTo(shift)) % TwoTo(depth)

\* expand_bits_to_byte: width * out_n samples of input, one byte each, are
\* written to the front of out
expand_bits_to_byte(width, depth, out_n, plte_present, input, outb) ==
    WriteAt(outb, 0, [j \in 1 .. width * out_n |-> PackedSample(input, depth, j - 1)])

\* the samples of pixel j (0-based) of a row of n samples per pixel, sb bytes each
PixelSamples(input, n, sb, j) ==
    [m \in 1 .. n |->
        IF sb = 2 THEN U16FromBe(Slice(input, (j * n + m - 1) * 2, 2))
        ELSE input[j * n + m]]

\* does the pixel equal the tRNS key
MatchesKey(samples, trns, sb) ==
    \A m \in 1 .. Len(samples) :
        samples[m] = (IF sb = 2 THEN trns[m] ELSE trns[m] % 256)

\* expand_trns: every pixel of input is copied to out followed by its alpha
expand_trns(input, outb, color, trns, depth) ==
    IF color \notin {"Luma", "RGB"} THEN outb
    ELSE
    LET n == num_components(color)
        sb == SampleBytes(depth)
        pix == Len(outb) \div ((n + 1) * sb)
        OutPixel(j) ==
            Slice(input, j * n * sb, n * sb)
            \o Repeat(IF MatchesKey(PixelSamples(input, n, sb, j), trns, sb)
                      THEN 0 ELSE 255, sb)
    IN [i \in 1 .. Len(outb) |->
          IF i <= pix * (n + 1) * sb
          THEN OutPixel((i - 1) \div ((n + 1) * sb))[((i - 1) % ((n + 1) * sb)) + 1]
          ELSE outb[i]]

\* faulty variant: the entry after the indexed one is taken
expand_palette_OffByOne(input, outb, plte_entry, components) ==
    LET pix == Len(outb) \div components
        Entry(j) == plte_entry[((input[j + 1] + 1) % 256) + 1]
        Comp(e, c) == CASE c = 0 -> e.red [] c = 1 -> e.green
                        [] c = 2 -> e.blue [] OTHER -> e.alpha
    IN [i \in 1 .. Len(outb) |->
          IF i <= pix * components
          THEN Comp(Entry((i - 1) \div components), (i - 1) % components)
          ELSE outb[i]]

\* expand_palette: every index of input becomes the entry's R,G,B(,A)
expand_palette(input, outb, plte_entry, components) ==
    LET pix == Len(outb) \div components
        Entry(j) == plte_entry[input[j + 1] + 1]
        Comp(e, c) == CASE c = 0 -> e.red [] c = 1 -> e.green
                        [] c = 2 -> e.blue [] OTHER -> e.alpha
    IN [i \in 1 .. Len(outb) |->
          IF i <= pix * components
          THEN Comp(Entry((i - 1) \div components), (i - 1) % components)
          ELSE outb[i]]

----------------------------------------------------------------------------
(* create_png_image_raw *)

\* ceil(samples * depth / 8): the bytes of one packed scanline
RowBytes(samples, depth) == (samples * depth + 7) \div 8

\* the quantities create_png_image_raw derives before its loop
RowParams(d, info, width, height) ==
    LET bytes == SampleBytes(info.depth)
        out_n == num_components(info.color)
    IN [bytes |-> bytes,
        img_width_bytes |-> RowBytes(info.component * width, info.depth),
        components |-> IF info.depth < 8 THEN 1 ELSE out_n * bytes,
        chunk_size |-> RowBytes(width * out_n, info.depth) + 1,
        width_stride |-> RowBytes(width * out_n, info.depth),
        out_chunk_size |->
            width * cs_num_components(get_colorspace(d)[1]) * bytes,
        will_post_process |-> d.seen_trns \/ d.seen_ptle \/ info.depth < 8,
        n_components |-> out_n]

\* the post-processing of one row: [ok, err, row, previous_stride]
PostProcessRow(d, info, P, width, to_filter_row, ps0) ==
    LET extra_transform == d.seen_ptle \/ d.seen_trns
        \* step 3: palette expansion
        Palette(ps1, row2) ==
            IF d.seen_ptle /\ d.png_info.color = "Palette"
            THEN IF d.palette = << >>
                 THEN [ok |-> FALSE, err |-> Err("EmptyPalette"), row |-> row2,
                       previous_stride |-> ps1]
                 ELSE IF Len(d.palette) < 256
                 THEN [ok |-> FALSE, err |-> Err("Panic"), row |-> row2,
                       previous_stride |-> ps1]
                 ELSE [ok |-> TRUE, err |-> NoErr,
                       row |-> expand_palette(ps1, row2, SubSeq(d.palette, 1, 256),
                                              IF d.seen_trns THEN 4 ELSE 3),
                       previous_stride |-> ps1]
            ELSE [ok |-> TRUE, err |-> NoErr, row |-> row2, previous_stride |-> ps1]
        \* step 2: tRNS key expansion
        Trns(ps1, row1) ==
            Palette(ps1,
                    IF d.seen_trns /\ d.png_info.color # "Palette"
                    THEN expand_trns(ps1, row1, info.color, d.trns_bytes, info.depth)
                    ELSE row1)
        \* step 1, the row: bit expansion of the scratch row into the row
        Bits(ps1) ==
            Trns(ps1,
                 IF info.depth < 8 /\ ~extra_transform
                 THEN expand_bits_to_byte(width, info.depth, P.n_components,
                                          d.seen_ptle, ps1, to_filter_row)
                 ELSE to_filter_row)
    IN \* step 1, the scratch row: bit expansion or the copy of the row
       Bits(IF info.depth < 8 /\ extra_transform
            THEN expand_bits_to_byte(width, info.depth, P.n_components,
                                     d.seen_ptle, to_filter_row, ps0)
            ELSE WriteAt(ps0, 0, SubSeq(to_filter_row, 1, P.width_stride)))

\* the filter executed on row i for the row's filter byte
RowFilter(filter_byte, i) ==
    IF i = 0 THEN FirstRowFilter(FilterMethodOf(filter_byte))
    ELSE FilterMethodOf(filter_byte)

\* faulty variant: the row just reconstructed is transformed, without lag
LaggedRow_Current(i) == i

\* the row the post-processor transforms at iteration i of the row loop
LaggedRow(i) == i - 1

\* faulty variant: the tail handles no row
TailRows_None(height) == 0

\* the number of rows the tail after the row loop transforms
TailRows(height) == Min(height, 1)

\* the row loop, from row i on: [ok, err, out, previous_stride, trace].
\* trace records the steps: the filter executed on a row with the previous
\* row it was handed, and the post-processing of a row
RECURSIVE RowLoop(_, _, _, _, _, _, _, _)
RowLoop(d, info, P, deflate_data, width, height, i, st) ==
    IF i >= height THEN [ok |-> TRUE, err |-> NoErr, out |-> st.out,
                         previous_stride |-> st.previous_stride,
                         trace |-> st.trace]
    ELSE
    LET in_stride == Slice(deflate_data, i * P.chunk_size, P.chunk_size)
        out_position == i * P.out_chunk_size
        prev_row == IF i = 0 THEN << 0 >>
                    ELSE Slice(st.out, (i - 1) * P.out_chunk_size, P.out_chunk_size)
        filter_byte == in_stride[1]
        raw == Tail(in_stride)
        filter == RowFilter(filter_byte, i)
        \* row LaggedRow(i) of out1 is replaced by its post-processed form r
        Lagged(out1, tr1, r) ==
            LET out2 == WriteAt(out1, LaggedRow(i) * P.out_chunk_size, r.row)
                tr2 == Append(tr1, [ev |-> "post", row |-> LaggedRow(i),
                                    byte |-> 0, filter |-> "",
                                    prev |-> << >>, cur |-> r.row])
            IN
            IF ~r.ok
            THEN [ok |-> FALSE, err |-> r.err, out |-> out2,
                  previous_stride |-> r.previous_stride, trace |-> tr2]
            ELSE RowLoop(d, info, P, deflate_data, width, height, i + 1,
                         [out |-> out2, previous_stride |-> r.previous_stride,
                          trace |-> tr2])
        \* out1 holds the reconstructed row i, tr1 the steps up to its filter
        Stepped(out1, tr1) ==
            IF P.will_post_process /\ i > 0
            THEN Lagged(out1, tr1,
                        PostProcessRow(d, info, P, width,
                            Slice(out1, LaggedRow(i) * P.out_chunk_size,
                                  P.out_chunk_size),
                            st.previous_stride))
            ELSE RowLoop(d, info, P, deflate_data, width, height, i + 1,
                         [out |-> out1, previous_stride |-> st.previous_stride,
                          trace |-> tr1])
        Filtered(out1) ==
            Stepped(out1,
                    Append(st.trace,
                           [ev |-> "filter", row |-> i, byte |-> filter_byte,
                            filter |-> filter, prev |-> prev_row,
                            cur |-> Slice(out1, out_position, P.out_chunk_size)]))
    IN
    IF out_position + P.out_chunk_size > Len(st.out)
    THEN [ok |-> FALSE, err |-> Err("Panic"), out |-> st.out,
          previous_stride |-> st.previous_stride, trace |-> st.trace]
    ELSE IF FilterMethodOf(filter_byte) = "Unknown"
    THEN [ok |-> FALSE, err |-> Err("Generic"), out |-> st.out,
          previous_stride |-> st.previous_stride, trace |-> st.trace]
    ELSE Filtered(WriteAt(st.out, out_position,
                          Unfilter(filter, prev_row, raw, P.components, 1, << >>)))

\* PngDecoder::create_png_image_raw: [ok, err, out, previous_stride, trace].
\* The steps are appended to d.rows, between a "begin" step that carries the
\* height and, on success, an "end" step
create_png_image_raw(d, deflate_data, width, height, outb, info) ==
    LET Step(ev, n) == [ev |-> ev, row |-> n, byte |-> 0, filter |-> "",
                        prev |-> << >>, cur |-> << >>]
        \* the tail: t is the post-processed last row, which the lag of the
        \* loop skipped
        LastRow(P, r, t) ==
            [ok |-> t.ok, err |-> t.err,
             out |-> WriteAt(r.out, (height - 1) * P.out_chunk_size, t.row),
             previous_stride |-> t.previous_stride,
             trace |-> Append(r.trace, [ev |-> "post", row |-> height - 1,
                                        byte |-> 0, filter |-> "",
                                        prev |-> << >>, cur |-> t.row])
                       \o (IF t.ok THEN << Step("end", height) >> ELSE << >>)]
        \* r is the result of the row loop
        Rows(P, r) ==
            IF ~r.ok THEN r
            ELSE IF ~P.will_post_process \/ TailRows(height) = 0
            THEN [r EXCEPT !.trace = Append(@, Step("end", height))]
            ELSE LastRow(P, r,
                         PostProcessRow(d, info, P, width,
                             Slice(r.out, (height - 1) * P.out_chunk_size,
                                   P.out_chunk_size),
                             r.previous_stride))
        Params(P) ==
            IF Len(deflate_data) < P.img_width_bytes * height + height
            THEN [ok |-> FALSE, err |-> Err("Generic"), out |-> outb,
                  previous_stride |-> d.previous_stride, trace |-> d.rows]
            ELSE Rows(P, RowLoop(d, info, P, deflate_data, width, height, 0,
                                 [out |-> outb,
                                  previous_stride |->
                                      IF P.will_post_process
                                      THEN GrowTo(d.previous_stride, P.out_chunk_size)
                                      ELSE d.previous_stride,
                                  trace |-> Append(d.rows, Step("begin", height))]))
    IN Params(RowParams(d, info, width, height))

----------------------------------------------------------------------------
(* inflate *)

\* zune_inflate::DeflateDecoder::decode_zlib, as a collaborator: a stream is
\* the zlib header byte followed by the stored bytes, and it is refused when
\* it is malformed or its output would exceed the limit.  [ok, data]
decode_zlib(idat, limit) ==
    IF Len(idat) >= 1 /\ idat[1] = 120 /\ Len(idat) - 1 <= limit
    THEN [ok |-> TRUE, data |-> Tail(idat)]
    ELSE [ok |-> FALSE, data |-> << >>]

\* the size hint of PngDecoder::inflate
size_hint(info) ==
    (info.width + 1) * info.height * SampleBytes(info.depth)
        * num_components(info.color)

\* faulty variant: the limit is the size hint, without the slack per row
inflate_limit_NoSlack(info) == size_hint(info)

\* the output limit of PngDecoder::inflate
inflate_limit(info) == size_hint(info) + 4 * info.height

\* PngDecoder::inflate
inflate(d) == decode_zlib(d.idat_chunks, inflate_limit(d.png_info))

----------------------------------------------------------------------------
(* decode_interlaced *)

XORIG == << 0, 4, 0, 2, 0, 1, 0 >>
YORIG == << 0, 0, 4, 0, 2, 0, 1 >>
XSPC == << 8, 8, 4, 4, 2, 2, 1 >>
YSPC == << 8, 8, 8, 4, 4, 2, 2 >>

\* the width of the subimage of pass p (1-based)
PassWidth(width, p) == SatSub(SatSub(width, XORIG[p]) + XSPC[p], 1) \div XSPC[p]

\* the height of the subimage of pass p (1-based)
PassHeight(height, p) == SatSub(SatSub(height, YORIG[p]) + YSPC[p], 1) \div YSPC[p]

\* the filtered bytes of a subimage of x by y pixels
PassLen(info, x, y) ==
    (RowBytes(num_components(info.color) * x, info.depth) + 1) * y

\* faulty variant: the origin of the pass is left out
FinalStart_NoOrigin(p, i, j, width, out_bytes) ==
    (j * YSPC[p]) * width * out_bytes + (i * XSPC[p]) * out_bytes

\* the raster byte offset at which pixel (i, j) of pass p is stored
FinalStart(p, i, j, width, out_bytes) ==
    LET out_y == j * YSPC[p] + YORIG[p]
        out_x == i * XSPC[p] + XORIG[p]
    IN out_y * width * out_bytes + out_x * out_bytes

\* the scatter loops of one pass, from subimage pixel n = j * x + i on:
\* [ok, out]; a copy that leaves the raster panics
RECURSIVE Scatter(_, _, _, _, _, _, _, _)
Scatter(outb, final_out, p, x, y, width, out_bytes, n) ==
    IF n >= x * y THEN [ok |-> TRUE, out |-> outb]
    ELSE
    LET final_start == FinalStart(p, n % x, n \div x, width, out_bytes)
        out_start == n * out_bytes
    IN IF final_start + out_bytes > Len(outb) \/ out_start + out_bytes > Len(final_out)
       THEN [ok |-> FALSE, out |-> outb]
       ELSE Scatter(WriteAt(outb, final_start, Slice(final_out, out_start, out_bytes)),
                    final_out, p, x, y, width, out_bytes, n + 1)

\* the passes p .. 7: [ok, err, out, previous_stride, trace]
RECURSIVE PassLoop(_, _, _, _, _)
PassLoop(d, deflate_data, info, p, st) ==
    IF p > 7 THEN [ok |-> TRUE, err |-> NoErr, out |-> st.out,
                   previous_stride |-> st.previous_stride, trace |-> st.trace]
    ELSE
    LET \* sc is the raster after the subimage r.out was copied into it
        Scattered(image_len, r, sc) ==
            IF ~sc.ok THEN [ok |-> FALSE, err |-> Err("Panic"), out |-> sc.out,
                            previous_stride |-> r.previous_stride,
                            trace |-> r.trace]
            ELSE PassLoop(d, deflate_data, info, p + 1,
                          [out |-> sc.out,
                           final_out |-> r.out,
                           previous_stride |-> r.previous_stride,
                           trace |-> r.trace,
                           image_offset |-> st.image_offset + image_len])
        \* r is the decoded subimage of x by y pixels
        Decoded(x, y, image_len, r) ==
            IF ~r.ok THEN [ok |-> FALSE, err |-> r.err, out |-> st.out,
                           previous_stride |-> r.previous_stride,
                           trace |-> r.trace]
            ELSE Scattered(image_len, r,
                           Scatter(st.out, r.out, p, x, y, info.width,
                                   cs_num_components(get_colorspace(d)[1])
                                       * SampleBytes(info.depth),
                                   0))
        Pass(x, y, image_len) ==
            IF x = 0 \/ y = 0 THEN PassLoop(d, deflate_data, info, p + 1, st)
            ELSE IF st.image_offset + image_len > Len(deflate_data)
            THEN [ok |-> FALSE, err |-> Err("GenericStatic"), out |-> st.out,
                  previous_stride |-> st.previous_stride, trace |-> st.trace]
            ELSE Decoded(x, y, image_len,
                         create_png_image_raw(
                             [d EXCEPT !.previous_stride = st.previous_stride,
                                       !.rows = st.trace],
                             Slice(deflate_data, st.image_offset, image_len),
                             x, y, st.final_out, info))
        Sized(x, y) == Pass(x, y, PassLen(info, x, y))
    IN Sized(PassWidth(info.width, p), PassHeight(info.height, p))

\* PngDecoder::decode_interlaced
decode_interlaced(d, deflate_data, outb, info) ==
    LET bytes == SampleBytes(info.depth)
        out_n == cs_num_components(get_colorspace(d)[1])
        new_len == info.width * info.height * out_n * bytes
    IN PassLoop(d, deflate_data, info, 1,
                [out |-> outb, final_out |-> Repeat(0, new_len),
                 previous_stride |-> d.previous_stride, trace |-> d.rows,
                 image_offset |-> 0])

----------------------------------------------------------------------------
(* decode_into, decode_raw, decode *)

\* zune_core::utils::convert_be_to_target_endian_u16: the two bytes of every
\* sample are swapped when the target is little endian
convert_be_to_target_endian_u16(buf, endian) ==
    IF endian = "LE"
    THEN [i \in 1 .. Len(buf) |->
            IF i % 2 = 1 THEN (IF i + 1 <= Len(buf) THEN buf[i + 1] ELSE buf[i])
            ELSE buf[i - 1]]
    ELSE buf

\* faulty variant: the length check is off by one
TooSmall_OffByOne(out_len, image_len) == out_len + 1 < image_len

\* the length check of decode_into
TooSmall(out_len, image_len) == out_len < image_len

\* the part of the caller's buffer decode_into works on
OutSlice(outb, image_len) == SubSeq(outb, 1, image_len)

\* faulty variant: the conversion is applied at every depth
Finalise_AllDepths(d, o) == convert_be_to_target_endian_u16(o, byte_endian(d))

\* the endian conversion of decode_into, applied to 16-bit images
Finalise(d, o) ==
    IF get_depth(d) = Some("Sixteen")
    THEN convert_be_to_target_endian_u16(o, byte_endian(d))
    ELSE o

\* faulty variant: the IDAT bytes are kept
ReleaseIdat_Keep(d) == d

\* the release of the IDAT bytes: self.idat_chunks = Vec::new()
ReleaseIdat(d) == [d EXCEPT !.idat_chunks = << >>]

\* PngDecoder::decode_into: [ok, err, d, out]
decode_into(s, d0, outb) ==
    LET \* r is the result of the image decode on the decoder d2
        Decoded(d2, r, rest) ==
            LET d3 == [d2 EXCEPT !.previous_stride = r.previous_stride,
                                 !.rows = r.trace] IN
            IF ~r.ok
            THEN [ok |-> FALSE, err |-> r.err, d |-> d3, out |-> r.out \o rest]
            ELSE [ok |-> TRUE, err |-> NoErr, d |-> d3,
                  out |-> Finalise(d3, r.out) \o rest]
        \* z is the inflated data; the IDAT bytes are released after it
        Inflated(d, info, image_len, z) ==
            LET d2 == [ReleaseIdat(d) EXCEPT !.rows = << >>] IN
            IF ~z.ok
            THEN [ok |-> FALSE, err |-> Err("ZlibError"), d |-> d, out |-> outb]
            ELSE Decoded(d2,
                         IF info.interlace_method = "Standard"
                         THEN create_png_image_raw(d2, z.data, info.width,
                                                   info.height,
                                                   OutSlice(outb, image_len), info)
                         ELSE decode_interlaced(d2, z.data,
                                                OutSlice(outb, image_len), info),
                         SubSeq(outb, image_len + 1, Len(outb)))
        Sized(d, image_len) ==
            IF TooSmall(Len(outb), image_len)
            THEN [ok |-> FALSE, err |-> Err2("TooSmallOutput", image_len, Len(outb)),
                  d |-> d, out |-> outb]
            ELSE IF image_len > Len(outb)
            THEN [ok |-> FALSE, err |-> Err("Panic"), d |-> d, out |-> outb]
            ELSE Inflated(d, d.png_info, image_len, inflate(d))
        WithHeaders(h) ==
            IF ~h.ok THEN [ok |-> FALSE, err |-> h.err, d |-> h.d, out |-> outb]
            ELSE Sized(h.d, output_buffer_size(h.d)[1])
    IN WithHeaders(IF ~d0.seen_headers THEN decode_headers(s, d0) ELSE Ok(d0))

\* PngDecoder::decode_raw: [ok, err, d, out]
decode_raw(s, d0) ==
    LET Decoded(r) == IF ~r.ok THEN [r EXCEPT !.out = << >>] ELSE r
        WithHeaders(h) ==
            IF ~h.ok THEN [ok |-> FALSE, err |-> h.err, d |-> h.d, out |-> << >>]
            ELSE Decoded(decode_into(s, h.d,
                                     Repeat(0, output_buffer_size(h.d)[1])))
    IN WithHeaders(IF ~d0.seen_headers THEN decode_headers(s, d0) ELSE Ok(d0))

\* the samples of a byte buffer reinterpreted as u16 in the host's byte order
\* (bytemuck::pod_align_to_mut over a Vec<u16>)
NativeU16(bytes, host_le) ==
    [k \in 1 .. Len(bytes) \div 2 |->
        IF host_le THEN bytes[2 * k - 1] + 256 * bytes[2 * k]
        ELSE 256 * bytes[2 * k - 1] + bytes[2 * k]]

\* faulty variant: the two byte orders are exchanged
HostEndian_Swapped(host_le) == IF host_le THEN "BE" ELSE "LE"

\* the byte order decode configures: the host's
HostEndian(host_le) == IF host_le THEN "LE" ELSE "BE"

\* PngDecoder::decode: [ok, err, d, out, kind]
decode(s, d0, host_le) ==
    LET \* r is the result of decode_into
        Decoded(r) ==
            IF ~r.ok THEN [ok |-> FALSE, err |-> r.err, d |-> r.d, out |-> << >>,
                           kind |-> "none"]
            ELSE IF r.d.png_info.depth <= 8
            THEN [ok |-> TRUE, err |-> NoErr, d |-> r.d, out |-> r.out,
                  kind |-> "U8"]
            ELSE IF r.d.png_info.depth = 16
            THEN [ok |-> TRUE, err |-> NoErr, d |-> r.d,
                  out |-> NativeU16(r.out, host_le), kind |-> "U16"]
            ELSE [ok |-> FALSE, err |-> Err("NotImplemented"), d |-> r.d,
                  out |-> << >>, kind |-> "none"]
        \* the u8 or the u16 vector, as bytes
        Allocated(d1, info, bytes, new_len) ==
            Decoded(decode_into(s, d1,
                        IF bytes = 1
                        THEN Repeat(0, new_len * (IF info.depth # 16 THEN 1 ELSE 0))
                        ELSE Repeat(0, 2 * new_len
                                           * (IF info.depth = 16 THEN 1 ELSE 0))))
        \* d1 is the decoder configured for the host's byte order
        Configured(d1, info) ==
            Allocated(d1, info, SampleBytes(info.depth),
                      info.width * info.height
                          * cs_num_components(get_colorspace(d1)[1]))
        WithHeaders(h) ==
            IF ~h.ok THEN [ok |-> FALSE, err |-> h.err, d |-> h.d, out |-> << >>,
                           kind |-> "none"]
            ELSE Configured([h.d EXCEPT !.options =
                                [@ EXCEPT !.byte_endian = HostEndian(host_le)]],
                            h.d.png_info)
    IN WithHeaders(IF ~d0.seen_headers THEN decode_headers(s, d0) ELSE Ok(d0))

----------------------------------------------------------------------------
(* Input files.  A file is built from a description of the image and a     *)
(* fault; "good" is a well-formed PNG.                                     *)

\* one chunk: length, name, payload, CRC over name and payload
MkChunk(name, payload) ==
    U32ToBe(Len(payload)) \o name \o payload \o U32ToBe(crc32(name \o payload))

\* a chunk whose stored CRC has its last byte flipped
MkChunkBadCrc(name, payload) ==
    U32ToBe(Len(payload)) \o name \o payload
        \o U32ToBe((crc32(name \o payload) + 1) % 65521)

\* a chunk whose declared length exceeds its payload by extra bytes
MkChunkLong(name, payload, extra) ==
    U32ToBe(Len(payload) + extra) \o name \o payload
        \o U32ToBe(crc32(name \o payload))

ColorTypeByte(color) ==
    CASE color = "Luma" -> 0 [] color = "RGB" -> 2 [] color = "Palette" -> 3
      [] color = "LumaA" -> 4 [] OTHER -> 6

IhdrPayload(im) ==
    U32ToBe(im.w) \o U32ToBe(im.h)
        \o << im.depth, ColorTypeByte(im.color), 0, 0, IF im.adam7 THEN 1 ELSE 0 >>

\* the filter byte of row i of a file with filter selector fsel
FilterByteOf(fsel, i) == IF fsel >= 5 THEN fsel ELSE (fsel + i) % 5

\* the filtered scanlines of a subimage of x by y pixels; seed tells the
\* subimages of an interlaced file apart
Scanlines(im, x, y, seed) ==
    LET rb == RowBytes(num_components(im.color) * x, im.depth)
        Row(i) == << FilterByteOf(im.fsel, i) >>
                  \o [k \in 1 .. rb |-> (seed * 64 + i * 16 + k * 3 - 2) % 256]
        RECURSIVE Rows(_)
        Rows(i) == IF i >= y THEN << >> ELSE Row(i) \o Rows(i + 1)
    IN Rows(0)

RECURSIVE PassData(_, _)
PassData(im, p) ==
    IF p > 7 THEN << >>
    ELSE LET x == PassWidth(im.w, p)
             y == PassHeight(im.h, p)
         IN (IF x = 0 \/ y = 0 THEN << >> ELSE Scanlines(im, x, y, p - 1))
            \o PassData(im, p + 1)

\* the inflated pixel data of the image
RawData(im) == IF im.adam7 THEN PassData(im, 1) ELSE Scanlines(im, im.w, im.h, 0)

\* the zlib stream of the pixel data
ZlibOf(data) == << 120 >> \o data

PlteEntries == << 10, 20, 30, 250, 240, 230, 7, 8, 9 >>

TrnsPayload(im) ==
    CASE im.color = "Luma" -> << 0, 1 >>
      [] im.color = "RGB" -> << 0, 1, 0, 4, 0, 7 >>
      [] OTHER -> << 0, 128 >>

BadSig == << 137, 80, 78, 71, 13, 10, 26, 11 >>

\* the chunks between IHDR and the pixel data.  The palette has one to
\* three entries, and all 256 for the largest 8-bit image
Prelude(im) ==
    (IF im.color = "Palette"
     THEN MkChunk(N_PLTE,
                  IF im.depth = 8 /\ im.w = MaxDim /\ im.h = MaxDim /\ ~im.adam7
                  THEN [i \in 1 .. 768 |-> (i * 7) % 256]
                  ELSE SubSeq(PlteEntries, 1, 3 * (1 + ((2 * im.w + im.h) % 3))))
     ELSE << >>)
        \o (IF im.trns THEN MkChunk(N_tRNS, TrnsPayload(im)) ELSE << >>)

File(im, fault) ==
    LET ihdr == MkChunk(N_IHDR, IhdrPayload(im))
        z == ZlibOf(RawData(im))
        idat == MkChunk(N_IDAT, z)
        iend == MkChunk(N_IEND, << >>)
        good == PNG_SIGNATURE \o ihdr \o Prelude(im) \o idat \o iend
    IN
    CASE fault = "good" -> good
      [] fault = "bad_signature" -> BadSig \o ihdr \o Prelude(im) \o idat \o iend
      [] fault = "no_ihdr" ->
            PNG_SIGNATURE \o MkChunk(N_gAMA, U32ToBe(45455)) \o ihdr \o idat \o iend
      [] fault = "short" -> SubSeq(good, 1, 12)
      [] fault = "crc_ihdr" ->
            PNG_SIGNATURE \o MkChunkBadCrc(N_IHDR, IhdrPayload(im)) \o Prelude(im)
                \o idat \o iend
      [] fault = "crc_idat" ->
            PNG_SIGNATURE \o ihdr \o Prelude(im) \o MkChunkBadCrc(N_IDAT, z) \o iend
      [] fault = "crc_iend" ->
            PNG_SIGNATURE \o ihdr \o Prelude(im) \o idat \o MkChunkBadCrc(N_IEND, << >>)
      [] fault = "long_length" ->
            PNG_SIGNATURE \o ihdr \o Prelude(im) \o MkChunkLong(N_IDAT, z, 40) \o iend
      [] fault = "tail_length" ->
            PNG_SIGNATURE \o ihdr \o Prelude(im) \o idat
                \o MkChunkLong(N_prVt, << 1, 2 >>, 1)
      [] fault = "no_iend" -> PNG_SIGNATURE \o ihdr \o Prelude(im) \o idat
      [] fault = "short_data" ->
            PNG_SIGNATURE \o ihdr \o Prelude(im)
                \o MkChunk(N_IDAT, SubSeq(z, 1, Len(z) - 1)) \o iend
      [] fault = "bad_filter" ->
            PNG_SIGNATURE \o ihdr \o Prelude(im)
                \o MkChunk(N_IDAT, ZlibOf(RawData([im EXCEPT !.fsel = 5]))) \o iend
      [] fault = "bad_zlib" ->
            PNG_SIGNATURE \o ihdr \o Prelude(im) \o MkChunk(N_IDAT, << 0 >> \o Tail(z))
                \o iend
      [] fault = "ancillary" ->
            PNG_SIGNATURE \o ihdr \o MkChunk(N_gAMA, U32ToBe(45455))
                \o MkChunk(N_prVt, << 1, 2 >>) \o MkChunk(N_pHYs, << 3 >>)
                \o MkChunk(N_tEXt, << 65, 0, 66 >>) \o Prelude(im)
                \o MkChunk(N_IDAT, SubSeq(z, 1, 1))
                \o MkChunk(N_IDAT, SubSeq(z, 2, Len(z))) \o iend
      [] fault = "two_frames" ->
            PNG_SIGNATURE \o ihdr \o MkChunk(N_acTL, << 0, 0, 0, 2, 0, 0, 0, 0 >>)
                \o MkChunk(N_fcTL, << 0 >>) \o Prelude(im) \o idat
                \o MkChunk(N_fcTL, << 1 >>) \o MkChunk(N_IDAT, << 9, 9 >>) \o iend
      [] fault = "dup_ihdr" -> PNG_SIGNATURE \o ihdr \o ihdr \o idat \o iend
      [] fault = "prefixed" -> BadSig \o good
      [] fault = "no_plte" -> PNG_SIGNATURE \o ihdr \o idat \o iend
      [] OTHER -> good

Faults ==
    {"bad_signature", "no_ihdr", "short", "crc_ihdr", "crc_idat", "crc_iend",
     "long_length", "tail_length", "no_iend", "short_data", "bad_filter",
     "bad_zlib", "ancillary", "two_frames", "dup_ihdr", "prefixed", "no_plte"}

ColorDepths ==
    {<< "Luma", 1 >>, << "Luma", 2 >>, << "Luma", 4 >>, << "Luma", 8 >>,
     << "Luma", 16 >>, << "RGB", 8 >>, << "RGB", 16 >>, << "Palette", 1 >>,
     << "Palette", 2 >>, << "Palette", 4 >>, << "Palette", 8 >>,
     << "LumaA", 8 >>, << "LumaA", 16 >>, << "RGBA", 8 >>, << "RGBA", 16 >>}

\* the images of the model, every colour type with and without tRNS
AllImages ==
    { [w |-> w, h |-> h, color |-> cd[1], depth |-> cd[2], adam7 |-> a,
       trns |-> tr, fsel |-> (w + 2 * h + cd[2]) % 5] :
        w \in 1 .. MaxDim, h \in 1 .. MaxDim + 1, cd \in ColorDepths,
        a \in BOOLEAN, tr \in BOOLEAN }

\* the well-formed images of the model: tRNS accompanies the colour types
\* without an alpha channel and the smallest images of the others; the
\* tallest images are one pixel wide and not interlaced
Images ==
    { im \in AllImages :
        /\ im.trns => \/ im.color \in {"Luma", "RGB", "Palette"}
                      \/ im.w = 1 /\ im.h = 1 /\ ~im.adam7 /\ im.depth = 8
        /\ im.h > MaxDim => im.w = 1 /\ ~im.adam7 }

\* the images the faulty files are derived from
FaultBases ==
    { im \in Images : im.w = MaxDim /\ im.h = MaxDim /\ im.trns = FALSE
                      /\ << im.color, im.depth >> \in
                            {<< "RGB", 8 >>, << "Palette", 4 >>, << "Luma", 16 >>} }

\* the option sets of the model: CRC verification, configured byte order and
\* the host's byte order
OptionSets ==
    { [confirm_crc |-> c, byte_endian |-> e, host_le |-> hl] :
        c \in BOOLEAN, e \in {"LE", "BE"}, hl \in BOOLEAN }

\* the decoders of the model: a file and the options it is opened with.  The
\* byte orders vary for the 16-bit images, CRC verification for all files.
OptionsFor(im) ==
    { x \in OptionSets :
        IF im.depth = 16 THEN x.confirm_crc = (x.byte_endian = "LE")
        ELSE x.byte_endian = "LE" /\ x.host_le = x.confirm_crc }

Inputs ==
    UNION { { << File(im, "good"), o >> : o \in OptionsFor(im) } : im \in Images }
        \cup { << File(im, f), o >> :
                 im \in FaultBases, f \in Faults,
                 o \in { x \in OptionSets : x.byte_endian = "BE" /\ x.host_le } }

----------------------------------------------------------------------------
(* RgbToGrayScale (zune-image)                                             *)

\* largest width and height of the images the operation is applied to
MaxGray == 2

\* the Image of a decoder state machine that holds none
NoImage == [colorspace |-> "Unknown", width |-> 0, height |-> 0, channels |-> << >>]

\* the colour spaces of the images
ImageColorSpaces == {"RGB", "RGBA", "RGBX", "GrayScale", "YCbCr", "CMYK"}

\* the number of channels an image of a colour space holds
ImageChannelCount(cs) ==
    CASE cs = "GrayScale" -> 1
      [] cs \in {"RGB", "YCbCr"} -> 3
      [] OTHER -> 4

\* zune_imageprocs::grayscale::rgb_to_grayscale:
\* 0.299 R + 0.587 G + 0.114 B in integer arithmetic
rgb_to_grayscale(r, g, b) ==
    [i \in 1 .. Len(r) |-> (299 * r[i] + 587 * g[i] + 114 * b[i]) \div 1000]

\* the colour space guard of execute_simple
ColorspaceRejected(im_colorspace) ==
    im_colorspace # "RGB" \/ im_colorspace # "RGBA" \/ im_colorspace # "RGBX"

\* RgbToGrayScale::execute_simple: [ok, err, image]
execute_simple(im) ==
    IF ColorspaceRejected(im.colorspace)
    THEN [ok |-> FALSE, err |-> Err2("WrongColorspace", "RGB", im.colorspace),
          image |-> im]
    ELSE
    LET size == im.width * im.height
        rgb_data == im.channels
        grayscale ==
            IF Len(rgb_data) = 3 \/ Len(rgb_data) = 4
            THEN rgb_to_grayscale(rgb_data[1], rgb_data[2], rgb_data[3])
            ELSE Repeat(0, size)
    IN [ok |-> TRUE, err |-> NoErr,
        image |-> [im EXCEPT !.channels = << grayscale >>,
                             !.colorspace = "GrayScale"]]

\* the channels of the images: constant or rising samples
ChannelsOf(size) ==
    { Repeat(0, size), Repeat(255, size), [i \in 1 .. size |-> (i * 60) % 256] }

\* the images the operation is applied to
GrayImages ==
    UNION { { [colorspace |-> cs, width |-> w, height |-> h, channels |-> ch] :
                ch \in [1 .. ImageChannelCount(cs) -> ChannelsOf(w * h)] } :
            cs \in ImageColorSpaces, w \in 1 .. MaxGray, h \in 1 .. MaxGray }

InitGray ==
    \E im \in GrayImages :
        LET d == new_with_options(<< >>, [confirm_crc |-> FALSE, byte_endian |-> "BE"])
        IN /\ image = im
           /\ stream = << >>
           /\ is_le = TRUE
           /\ position = d.position
           /\ options = d.options
           /\ png_info = d.png_info
           /\ palette = d.palette
           /\ idat_chunks = d.idat_chunks
           /\ previous_stride = d.previous_stride
           /\ trns_bytes = d.trns_bytes
           /\ seen_hdr = d.seen_hdr
           /\ seen_ptle = d.seen_ptle
           /\ seen_headers = d.seen_headers
           /\ seen_trns = d.seen_trns
           /\ history = d.history
           /\ rows = d.rows
           /\ out = << >>
           /\ ret = [op |-> "new", ok |-> TRUE, err |-> NoErr, kind |-> "none",
                     given |-> 0, pre |-> im]

ExecuteSimple ==
    \E r \in {execute_simple(image)} :
       /\ image' = r.image
       /\ ret' = [op |-> "execute_simple", ok |-> r.ok, err |-> r.err,
                  kind |-> "none", given |-> 0, pre |-> image]
       /\ UNCHANGED <<stream, position, options, is_le, png_info, palette,
                      idat_chunks, previous_stride, trns_bytes, seen_hdr,
                      seen_ptle, seen_headers, seen_trns, history, rows, out>>

NextGray == ExecuteSimple

SpecGray == InitGray /\ [][NextGray]_vars

----------------------------------------------------------------------------
(* The state machine *)

Init ==
    \E in \in Inputs :
        LET data == in[1]
            o == in[2]
            d == new_with_options(data,
                    [confirm_crc |-> o.confirm_crc, byte_endian |-> o.byte_endian])
        IN /\ stream = data
           /\ is_le = o.host_le
           /\ position = d.position
           /\ options = d.options
           /\ png_info = d.png_info
           /\ palette = d.palette
           /\ idat_chunks = d.idat_chunks
           /\ previous_stride = d.previous_stride
           /\ trns_bytes = d.trns_bytes
           /\ seen_hdr = d.seen_hdr
           /\ seen_ptle = d.seen_ptle
           /\ seen_headers = d.seen_headers
           /\ seen_trns = d.seen_trns
           /\ history = d.history
           /\ rows = d.rows
           /\ out = << >>
           /\ ret = [op |-> "new", ok |-> TRUE, err |-> NoErr, kind |-> "none",
                     given |-> 0, pre |-> d]
           /\ image = NoImage

\* the caller's buffer before decode_into: byte i holds the mark -i, which no
\* decoded byte equals
Fresh(n) == [i \in 1 .. n |-> 0 - i]

\* the buffer lengths a caller tries: around the size the headers announce
OutLens ==
    LET Around(n) == {SatSub(n, 1), n, n + 2}
        Lens(h) == IF h.ok THEN Around(output_buffer_size(h.d)[1]) ELSE {0, 3}
    IN Lens(decode_headers(stream, Self))

DecodeHeaders ==
    \E r \in {decode_headers(stream, Self)} :
       /\ Install(r.d)
       /\ ret' = [op |-> "decode_headers", ok |-> r.ok, err |-> r.err,
                  kind |-> "none", given |-> 0, pre |-> Self]
       /\ UNCHANGED <<stream, is_le, out, image>>

DecodeInto ==
    \E n \in OutLens :
       \E r \in {decode_into(stream, Self, Fresh(n))} :
          /\ Install(r.d)
          /\ out' = r.out
          /\ ret' = [op |-> "decode_into", ok |-> r.ok, err |-> r.err,
                     kind |-> "none", given |-> n, pre |-> Self]
          /\ UNCHANGED <<stream, is_le, image>>

DecodeRaw ==
    \E r \in {decode_raw(stream, Self)} :
       /\ Install(r.d)
       /\ out' = r.out
       /\ ret' = [op |-> "decode_raw", ok |-> r.ok, err |-> r.err,
                  kind |-> "none", given |-> 0, pre |-> Self]
       /\ UNCHANGED <<stream, is_le, image>>

Decode ==
    \E r \in {decode(stream, Self, is_le)} :
       /\ Install(r.d)
       /\ out' = r.out
       /\ ret' = [op |-> "decode", ok |-> r.ok, err |-> r.err,
                  kind |-> r.kind, given |-> 0, pre |-> Self]
       /\ UNCHANGED <<stream, is_le, image>>

Next == DecodeHeaders \/ DecodeInto \/ DecodeRaw \/ Decode

Spec == Init /\ [][Next]_vars

----------------------------------------------------------------------------
(* Interlaced and non-interlaced files of the same pixels.  The images are *)
(* 8-bit greyscale, every scanline has filter byte 0 and the pixel at      *)
(* column X of row Y holds the value Y * w + X + 1.                        *)

\* the largest width and height of these images
MaxSide == 9

\* the value of the pixel at column X of row Y
PixelAt(X, Y, w) == Y * w + X + 1

\* the scanlines of pass p (1-based) of a w by h image, from row j on
RECURSIVE PixelPass(_, _, _, _)
PixelPass(w, h, p, j) ==
    IF PassWidth(w, p) = 0 \/ j >= PassHeight(h, p) THEN << >>
    ELSE << 0 >>
         \o [i \in 1 .. PassWidth(w, p) |->
                PixelAt((i - 1) * XSPC[p] + XORIG[p], j * YSPC[p] + YORIG[p], w)]
         \o PixelPass(w, h, p, j + 1)

\* the scanlines of the non-interlaced image, from row j on
RECURSIVE PixelRows(_, _, _)
PixelRows(w, h, j) ==
    IF j >= h THEN << >>
    ELSE << 0 >> \o [i \in 1 .. w |-> PixelAt(i - 1, j, w)] \o PixelRows(w, h, j + 1)

\* the file of the w by h image, interlaced or not
PixelFile(w, h, adam7) ==
    PNG_SIGNATURE
        \o MkChunk(N_IHDR, IhdrPayload([w |-> w, h |-> h, color |-> "Luma",
                                        depth |-> 8, adam7 |-> adam7]))
        \o MkChunk(N_IDAT,
                   ZlibOf(IF adam7
                          THEN PixelPass(w, h, 1, 0) \o PixelPass(w, h, 2, 0)
                               \o PixelPass(w, h, 3, 0) \o PixelPass(w, h, 4, 0)
                               \o PixelPass(w, h, 5, 0) \o PixelPass(w, h, 6, 0)
                               \o PixelPass(w, h, 7, 0)
                          ELSE PixelRows(w, h, 0)))
        \o MkChunk(N_IEND, << >>)

\* a decoder opened on one of these files
InitAdam7 ==
    \E w \in 1 .. MaxSide, h \in 1 .. MaxSide, adam7 \in BOOLEAN :
        LET d == new_with_options(PixelFile(w, h, adam7),
                                  [confirm_crc |-> FALSE, byte_endian |-> "BE"])
        IN /\ stream = PixelFile(w, h, adam7)
           /\ is_le = TRUE
           /\ position = d.position
           /\ options = d.options
           /\ png_info = d.png_info
           /\ palette = d.palette
           /\ idat_chunks = d.idat_chunks
           /\ previous_stride = d.previous_stride
           /\ trns_bytes = d.trns_bytes
           /\ seen_hdr = d.seen_hdr
           /\ seen_ptle = d.seen_ptle
           /\ seen_headers = d.seen_headers
           /\ seen_trns = d.seen_trns
           /\ history = d.history
           /\ rows = d.rows
           /\ out = << >>
           /\ ret = [op |-> "new", ok |-> TRUE, err |-> NoErr, kind |-> "none",
                     given |-> 0, pre |-> d]
           /\ image = NoImage

SpecAdam7 == InitAdam7 /\ [][Next]_vars

----------------------------------------------------------------------------
(* The inflate step on well-formed files of every colour type, bit depth   *)
(* and interlace method.                                                   *)

\* the largest width and height of these images
MaxInflateSide == 16

InitInflate ==
    \E w \in 1 .. MaxInflateSide, h \in 1 .. MaxInflateSide,
       cd \in ColorDepths, a \in BOOLEAN :
        LET data == File([w |-> w, h |-> h, color |-> cd[1], depth |-> cd[2],
                          adam7 |-> a, trns |-> FALSE,
                          fsel |-> (w + 2 * h + cd[2]) % 5], "good")
            d == new_with_options(data,
                                  [confirm_crc |-> FALSE, byte_endian |-> "BE"])
        IN /\ stream = data
           /\ is_le = TRUE
           /\ position = d.position
           /\ options = d.options
           /\ png_info = d.png_info
           /\ palette = d.palette
           /\ idat_chunks = d.idat_chunks
           /\ previous_stride = d.previous_stride
           /\ trns_bytes = d.trns_bytes
           /\ seen_hdr = d.seen_hdr
           /\ seen_ptle = d.seen_ptle
           /\ seen_headers = d.seen_headers
           /\ seen_trns = d.seen_trns
           /\ history = d.history
           /\ rows = d.rows
           /\ out = << >>
           /\ ret = [op |-> "new", ok |-> TRUE, err |-> NoErr, kind |-> "none",
                     given |-> 0, pre |-> d]
           /\ image = NoImage

\* the call of inflate that decode_into makes once the headers are decoded;
\* out holds the inflated bytes
Inflate ==
    /\ seen_headers
    /\ \E z \in {inflate(Self)} :
          /\ out' = z.data
          /\ ret' = [op |-> "inflate", ok |-> z.ok,
                     err |-> IF z.ok THEN NoErr ELSE Err("ZlibError"),
                     kind |-> "none", given |-> 0, pre |-> Self]
    /\ UNCHANGED <<stream, position, options, is_le, png_info, palette,
                   idat_chunks, previous_stride, trns_bytes, seen_hdr,
                   seen_ptle, seen_headers, seen_trns, history, rows, image>>

NextInflate == DecodeHeaders \/ Inflate

SpecInflate == InitInflate /\ [][NextInflate]_vars

----------------------------------------------------------------------------
(* Properties *)

\* the promoted output colour space of a colour type
PromotedColorSpace(color, trns) ==
    CASE color = "Palette" -> IF trns THEN "RGBA" ELSE "RGB"
      [] color = "RGB" -> IF trns THEN "RGBA" ELSE "RGB"
      [] color = "Luma" -> IF trns THEN "LumaA" ELSE "Luma"
      [] color = "LumaA" -> "LumaA"
      [] color = "RGBA" -> "RGBA"
      [] OTHER -> "none"

\* the component count of the promoted output colour space
PromotedComponents(color, trns) ==
    LET cs == PromotedColorSpace(color, trns) IN
    CASE cs = "Luma" -> 1 [] cs = "LumaA" -> 2 [] cs = "RGB" -> 3
      [] cs = "RGBA" -> 4 [] OTHER -> 0

\* width * height * out_components * B of the current image
ExpectedSize ==
    png_info.width * png_info.height
        * PromotedComponents(png_info.color, seen_trns)
        * (IF png_info.depth = 16 THEN 2 ELSE 1)

\* C1: decode_headers is idempotent.  A call made once the headers have been
\* decoded returns Ok and leaves the whole decoder as it was: the cursor is
\* not moved, no chunk is read, and PngInfo, the palette, the IDAT bytes and
\* the four flags are unchanged.
C1_DecodeHeadersIdempotent ==
    (ret.op = "decode_headers" /\ ret.pre.seen_headers) =>
        /\ ret.ok
        /\ position = ret.pre.position
        /\ history = ret.pre.history
        /\ png_info = ret.pre.png_info
        /\ palette = ret.pre.palette
        /\ idat_chunks = ret.pre.idat_chunks
        /\ seen_hdr = ret.pre.seen_hdr
        /\ seen_ptle = ret.pre.seen_ptle
        /\ seen_trns = ret.pre.seen_trns
        /\ seen_headers = ret.pre.seen_headers
        /\ Self = ret.pre

\* a second decode_headers on a decoder that holds a palette and IDAT bytes
C1_Witness ==
    /\ ret.op = "decode_headers"
    /\ ret.pre.seen_headers
    /\ ret.pre.idat_chunks # << >>
    /\ ret.pre.seen_ptle
    /\ ret.pre.position > 0

\* C2: the write footprint of decode_into.  When the headers are decoded and
\* the buffer is shorter than output_buffer_size() the call fails with
\* TooSmallOutput(output_buffer_size(), out.len()); whenever the buffer is
\* shorter, or no size is known, no byte of it is modified; when it is long
\* enough no byte at an index >= output_buffer_size() is modified, whether
\* the call succeeds or fails.
C2_WriteFootprint ==
    ret.op = "decode_into" =>
        LET size == output_buffer_size(Self) IN
        /\ Len(out) = ret.given
        /\ (size = None \/ ret.given < size[1]) => out = Fresh(ret.given)
        /\ (seen_headers /\ ret.given < size[1]) =>
              /\ ~ret.ok
              /\ ret.err = Err2("TooSmallOutput", size[1], ret.given)
        /\ (size # None /\ ret.given >= size[1]) =>
              \A i \in size[1] + 1 .. ret.given : out[i] = 0 - i

\* decode_into refused a buffer that is one byte short
C2_Witness ==
    /\ ret.op = "decode_into"
    /\ ret.err.kind = "TooSmallOutput"
    /\ ret.given >= 1
    /\ ret.given + 1 = ret.err.a

\* C3: once IHDR has been seen output_buffer_size() is
\* width * height * out_components * B, and a successful decode_raw returns
\* a buffer of exactly that length.
C3_OutputBufferSize ==
    /\ seen_hdr => output_buffer_size(Self) = Some(ExpectedSize)
    /\ (ret.op = "decode_raw" /\ ret.ok) => Len(out) = ExpectedSize

\* decode_raw returned a 16-bit image promoted by tRNS
C3_Witness ==
    /\ ret.op = "decode_raw"
    /\ ret.ok
    /\ png_info.depth = 16
    /\ seen_trns
    /\ Len(out) > 0

\* C4: the output colour space is the promotion of the IHDR colour type by
\* seen_trns and depends on nothing else: Palette->RGB and the others
\* unchanged without tRNS; RGB and Palette->RGBA, Luma->LumaA, LumaA and
\* RGBA unchanged with tRNS.
C4_ColorspacePromotion ==
    seen_hdr =>
        get_colorspace(Self) = Some(PromotedColorSpace(png_info.color, seen_trns))

\* a palette image whose tRNS chunk was seen
C4_Witness ==
    /\ seen_hdr
    /\ seen_trns
    /\ png_info.color = "Palette"
    /\ get_colorspace(Self) = Some("RGBA")

\* C5: while seen_hdr is false every accessor returns None.
C5_NoneBeforeIhdr ==
    ~seen_hdr =>
        /\ get_dimensions(Self) = None
        /\ get_depth(Self) = None
        /\ get_colorspace(Self) = None
        /\ get_info(Self) = None
        /\ output_buffer_size(Self) = None

\* header decoding failed before IHDR was parsed
C5_Witness ==
    /\ ~seen_hdr
    /\ ret.op = "decode_headers"
    /\ ~ret.ok
    /\ position > 0

\* C6: after a decode_headers call that returned an error, get_dimensions
\* and get_colorspace return None, also when the error came from a chunk
\* that follows a valid IHDR.
C6_NoneAfterHeaderError ==
    (ret.op = "decode_headers" /\ ~ret.ok) =>
        /\ get_dimensions(Self) = None
        /\ get_colorspace(Self) = None

\* the raster of the image the last operation decoded, in PNG's big-endian
\* sample order: the decode of the same decoder with no byte swap configured
BigEndianRaster ==
    decode_into(stream,
                [ret.pre EXCEPT !.options = [@ EXCEPT !.byte_endian = "BE"]],
                Repeat(0, ExpectedSize)).out

\* C7: decode dispatches on depth.  On success it returns U8 with
\* width*height*out_components bytes when depth <= 8 and U16 with
\* width*height*out_components samples when depth = 16, each sample holding
\* the value of the image's big-endian sample whatever byte order was
\* configured; it never fails with "Not implemented".
C7_DecodeDispatch ==
    ret.op = "decode" =>
        LET n == png_info.width * png_info.height
                     * PromotedComponents(png_info.color, seen_trns)
        IN
        /\ ret.err.kind # "NotImplemented"
        /\ (ret.ok /\ png_info.depth <= 8) => ret.kind = "U8" /\ Len(out) = n
        /\ (ret.ok /\ png_info.depth > 8) =>
              /\ png_info.depth = 16
              /\ ret.kind = "U16"
              /\ Len(out) = n
              /\ \E raster \in {BigEndianRaster} :
                    \A k \in 1 .. n :
                        out[k] = 256 * raster[2 * k - 1] + raster[2 * k]

\* decode returned 16-bit samples whose two bytes differ, on a decoder
\* configured for the byte order that is not the host's
C7_Witness ==
    /\ ret.op = "decode"
    /\ ret.ok
    /\ ret.kind = "U16"
    /\ ret.pre.options.byte_endian # options.byte_endian
    /\ \E k \in 1 .. Len(out) : out[k] % 256 # out[k] \div 256

\* the outcome of a call that was refused at entry
RefusedAtEntry(kind) ==
    /\ ~ret.ok
    /\ ret.err.kind = kind
    /\ history = << >>
    /\ ~seen_hdr
    /\ ~seen_headers

\* C8: the entry preconditions of decode_headers.  On a decoder that has
\* read nothing, a file whose first 8 bytes are not the PNG signature is
\* refused with BadSignature, and a file with the signature whose bytes
\* 12-15 are not "IHDR" is refused with NoIhdr; no chunk handler runs and
\* seen_hdr and seen_headers stay false.
C8_EntryPreconditions ==
    (ret.op # "new" /\ ret.pre.position = 0 /\ ~ret.pre.seen_headers) =>
        /\ (Len(stream) >= 8
              /\ SubSeq(stream, 1, 8) # << 137, 80, 78, 71, 13, 10, 26, 10 >>)
              => RefusedAtEntry("BadSignature")
        /\ (Len(stream) >= 16
              /\ SubSeq(stream, 1, 8) = << 137, 80, 78, 71, 13, 10, 26, 10 >>
              /\ SubSeq(stream, 13, 16) # << 73, 72, 68, 82 >>)
              => RefusedAtEntry("NoIhdr")

\* a file with the signature and another first chunk was refused
C8_Witness ==
    /\ ret.op = "decode_headers"
    /\ ret.pre.position = 0
    /\ ret.err.kind = "NoIhdr"
    /\ SubSeq(stream, 13, 16) = N_gAMA

\* the events of the history the last operation added
NewEvents == Len(ret.pre.history) + 1 .. Len(history)

\* the chunk of event e lies inside the input, CRC included
Complete(e) == e.at + e.length + 4 <= Len(stream)

\* the CRC stored after the payload of the chunk of event e
StoredCrc(e) == U32FromBe(Slice(stream, e.at + e.length, 4))

\* the CRC-32 of the name and payload of the chunk of event e
ComputedCrc(e) == crc32(Slice(stream, e.at - 4, e.length + 4))

\* C9: a chunk whose declared length L is such that L + 4 exceeds the bytes
\* remaining after the chunk name makes read_chunk_header fail with
\* BadChunk, and no handler is dispatched for it.
C9_OverlongChunkIsBadChunk ==
    \A k \in NewEvents :
        (history[k].ev = "frame" /\ ~Complete(history[k])) =>
            /\ ~ret.ok
            /\ ret.err.kind = "BadChunk"
            /\ \A j \in 1 .. Len(history) :
                  ~(history[j].ev = "run" /\ history[j].at = history[k].at)

\* C10: with png_confirm_crc enabled a handler runs only on a chunk whose
\* stored CRC equals the CRC-32 of name||payload; the first chunk whose CRCs
\* differ ends the call with BadCrc(stored, computed), nothing is read after
\* it, and a decode_into that fails so leaves the caller's buffer unchanged.
\* With or without verification a handler is entered with the cursor at the
\* first payload byte, and a chunk that ends the loop leaves it there.
C10_CrcVerification ==
    /\ options.confirm_crc =>
          \A k \in 1 .. Len(history) :
              LET e == history[k] IN
              /\ e.ev = "run" => Complete(e) /\ StoredCrc(e) = ComputedCrc(e)
              /\ (e.ev = "frame" /\ k \in NewEvents /\ Complete(e)
                    /\ StoredCrc(e) # ComputedCrc(e)) =>
                    /\ k = Len(history)
                    /\ ~ret.ok
                    /\ ret.err = Err2("BadCrc", StoredCrc(e), ComputedCrc(e))
                    /\ ret.op = "decode_into" => out = Fresh(ret.given)
    /\ \A k \in 1 .. Len(history) :
          LET e == history[k] IN
          /\ e.ev = "run" => e.cursor = e.at
          /\ (e.ev = "frame" /\ k \in NewEvents /\ k = Len(history) /\ Complete(e)
                /\ (options.confirm_crc => StoredCrc(e) = ComputedCrc(e)))
                => position = e.at

\* decode_into stopped at a chunk after IHDR whose CRC is wrong
C10_Witness ==
    /\ options.confirm_crc
    /\ ret.op = "decode_into"
    /\ ret.err.kind = "BadCrc"
    /\ seen_hdr
    /\ ret.given > 0
    /\ history[Len(history)].tag = "IDAT"

\* the fcTL chunks the last operation read
FctlFrames ==
    { k \in NewEvents : history[k].ev = "frame" /\ history[k].tag = "fcTL" }

\* the payloads of the IDAT chunks handled before event k, in order
IdatBefore(k) ==
    LET RECURSIVE Upto(_)
        Upto(j) ==
            IF j = 0 THEN << >>
            ELSE Upto(j - 1)
                 \o (IF history[j].ev = "run" /\ history[j].tag = "IDAT"
                     THEN Slice(stream, history[j].at, history[j].length)
                     ELSE << >>)
    IN Upto(k - 1)

\* C11: within one decode_headers call the first fcTL chunk is handed to the
\* unknown-chunk callback, which is entered at its payload, and the chunk
\* after it is read; the second fcTL chunk ends header parsing with
\* seen_headers set, nothing is read after it, and idat holds only the IDAT
\* payloads that precede it.
C11_FctlHandling ==
    \A k \in FctlFrames :
        LET e == history[k]
            first == \A j \in FctlFrames : j >= k
        IN
        /\ first =>
              /\ k + 2 <= Len(history)
              /\ history[k + 1] = [ev |-> "run", tag |-> "fcTL", at |-> e.at,
                                   length |-> e.length, cursor |-> e.at]
              /\ history[k + 2].ev = "frame"
              /\ history[k + 2].at = e.at + e.length + 4 + 8
        /\ ~first =>
              /\ k = Len(history)
              /\ seen_headers
              /\ position = e.at
              /\ ret.op = "decode_headers" => ret.ok /\ idat_chunks = IdatBefore(k)

\* a decode_headers call stopped at a second fcTL chunk that an IDAT chunk
\* follows in the input
C11_Witness ==
    /\ ret.op = "decode_headers"
    /\ Cardinality(FctlFrames) = 2
    /\ idat_chunks # << >>
    /\ \E k \in FctlFrames :
          /\ k = Len(history)
          /\ Slice(stream, history[k].at + history[k].length + 8, 4) = N_IDAT

\* C12: a Palette image for which no PLTE chunk was seen is refused with
\* EmptyPalette by every decode call that reaches the pixel data.
C12_MissingPaletteIsEmptyPalette ==
    (/\ ret.op \in {"decode_into", "decode_raw", "decode"}
     /\ seen_headers
     /\ png_info.color = "Palette"
     /\ ~seen_ptle
     /\ ret.err.kind \notin {"TooSmallOutput", "ZlibError"})
        => ~ret.ok /\ ret.err.kind = "EmptyPalette"

\* the pixels (p, i, j) of the seven passes of a w by h image
PassPixels(w, h) ==
    UNION { { << p, i, j >> : i \in 0 .. PassWidth(w, p) - 1,
                             j \in 0 .. PassHeight(h, p) - 1 } : p \in 1 .. 7 }

\* the raster column and row of a pass pixel
DestX(q) == q[2] * XSPC[q[1]] + XORIG[q[1]]
DestY(q) == q[3] * YSPC[q[1]] + YORIG[q[1]]

\* C13: the destinations of the pixels of the seven Adam7 passes lie inside
\* the width x height raster and hit every position of it exactly once, and
\* a successful decode of a file, interlaced or not, returns the raster of
\* its pixels - so the interlaced and the non-interlaced file of the same
\* pixels decode to the same raster.
C13_Adam7Bijection ==
    seen_hdr =>
        LET w == png_info.width
            h == png_info.height
        IN
        /\ \A q \in PassPixels(w, h) : DestX(q) < w /\ DestY(q) < h
        /\ \A X \in 0 .. w - 1, Y \in 0 .. h - 1 :
              Cardinality({ q \in PassPixels(w, h) :
                              DestX(q) = X /\ DestY(q) = Y }) = 1
        /\ (ret.op = "decode_raw" /\ ret.ok) =>
              out = [k \in 1 .. w * h |-> PixelAt((k - 1) % w, (k - 1) \div w, w)]

\* an interlaced image with pixels in all seven passes was decoded
C13_Witness ==
    /\ ret.op = "decode_raw"
    /\ ret.ok
    /\ png_info.interlace_method = "Adam7"
    /\ png_info.width = MaxSide
    /\ png_info.height = MaxSide - 1
    /\ Len(out) = MaxSide * (MaxSide - 1)

\* the decoder the last operation started from, configured for the other
\* byte order
OtherEndian ==
    [ret.pre EXCEPT !.options =
        [@ EXCEPT !.byte_endian = IF @ = "LE" THEN "BE" ELSE "LE"]]

\* C14: two decode_into runs on the same input that differ only in the
\* configured byte order end alike; at depth <= 8 they leave identical
\* buffers, and at depth 16 the buffers of two successful runs differ exactly
\* by the exchange of the two bytes of every 16-bit sample of the image.
C14_EndianOnlyForSixteen ==
    ret.op = "decode_into" =>
        \E other \in {decode_into(stream, OtherEndian, Fresh(ret.given))} :
            /\ other.ok = ret.ok
            /\ other.err = ret.err
            /\ Len(other.out) = Len(out)
            /\ png_info.depth <= 8 => other.out = out
            /\ (ret.ok /\ png_info.depth = 16) =>
                  LET size == output_buffer_size(Self)[1] IN
                  \A i \in 1 .. Len(out) :
                      other.out[i] = IF i > size THEN out[i]
                                     ELSE IF i % 2 = 1 THEN out[i + 1]
                                     ELSE out[i - 1]

\* a 16-bit interlaced image with a tRNS key was decoded to little-endian
\* samples whose two bytes differ
C14_Witness ==
    /\ ret.op = "decode_into"
    /\ ret.ok
    /\ png_info.depth = 16
    /\ png_info.interlace_method = "Adam7"
    /\ seen_trns
    /\ options.byte_endian = "LE"
    /\ \E i \in 1 .. Len(out) : i % 2 = 1 /\ i < Len(out) /\ out[i] # out[i + 1]

\* the last operation is one of the three decode calls
DecodeCall == ret.op \in {"decode_into", "decode_raw", "decode"}

\* the last operation got as far as inflate: the headers are decoded and the
\* buffer was long enough
ReachedInflate ==
    /\ DecodeCall
    /\ seen_headers
    /\ ret.err.kind # "TooSmallOutput"

\* the decoder at the moment the last operation called inflate
AtInflate ==
    IF ret.pre.seen_headers THEN ret.pre ELSE decode_headers(stream, ret.pre).d

\* C15: after a decode call in which inflate returned Ok, idat is empty,
\* also when the reconstruction failed afterwards; when inflate failed the
\* call ends with the zlib error and idat is as accumulated.  A call made
\* after a successful decode therefore hands an empty idat to inflate.
C15_IdatReleased ==
    /\ ReachedInflate =>
          \E at \in {AtInflate} :
              /\ inflate(at).ok => idat_chunks = << >>
              /\ ~inflate(at).ok =>
                    /\ ~ret.ok
                    /\ ret.err.kind = "ZlibError"
                    /\ idat_chunks = at.idat_chunks
    /\ (DecodeCall /\ ret.ok) => idat_chunks = << >>
    /\ (ReachedInflate /\ ret.pre.seen_headers /\ ret.pre.idat_chunks = << >>) =>
          idat_chunks = << >> /\ AtInflate.idat_chunks = << >>

\* inflate succeeded, the reconstruction that followed failed, and the IDAT
\* bytes the call started with are gone
C15_Witness ==
    /\ ret.op = "decode_into"
    /\ ~ret.ok
    /\ ret.err.kind = "Generic"
    /\ ret.pre.seen_headers
    /\ ret.pre.idat_chunks # << >>
    /\ inflate(ret.pre).ok
    /\ idat_chunks = << >>

\* C16: execute_simple converts every image whose colour space is RGB, RGBA
\* or RGBX - it returns Ok, leaves one channel of width * height samples and
\* sets the colour space to GrayScale - and refuses the other colour spaces
\* with WrongColorspace, leaving the image unchanged.
C16_GrayscaleConverts ==
    ret.op = "execute_simple" =>
        IF ret.pre.colorspace \in {"RGB", "RGBA", "RGBX"}
        THEN /\ ret.ok
             /\ image.colorspace = "GrayScale"
             /\ Len(image.channels) = 1
             /\ Len(image.channels[1]) = image.width * image.height
        ELSE /\ ~ret.ok
             /\ ret.err.kind = "WrongColorspace"
             /\ image = ret.pre


\* C17: the one-row lag keeps the filter input raw.  In every raster
\* reconstruction, the previous row handed to the filter of a row i >= 1 is
\* row i - 1 of the output buffer as its own filter left it, and no
\* post-processing of row i - 1 precedes the filter of row i.
C17_LagKeepsFilterInputRaw ==
    \A k \in 1 .. Len(rows) :
        (rows[k].ev = "filter" /\ rows[k].row >= 1) =>
            LET begin == CHOOSE b \in 1 .. k :
                            /\ rows[b].ev = "begin"
                            /\ \A j \in b + 1 .. k : rows[j].ev # "begin"
                i == rows[k].row
            IN /\ \E j \in begin .. k - 1 :
                     /\ rows[j].ev = "filter"
                     /\ rows[j].row = i - 1
                     /\ rows[k].prev = rows[j].cur
               /\ \A j \in begin .. k :
                     ~(rows[j].ev = "post" /\ rows[j].row = i - 1)

\* a decode succeeded in which a row i >= 1 was reconstructed by a filter
\* that reads the previous row, and the post-processing that followed
\* changed that previous row
C17_Witness ==
    /\ ret.op = "decode_into"
    /\ ret.ok
    /\ \E k \in 1 .. Len(rows) - 1 :
          /\ rows[k].ev = "filter"
          /\ rows[k].row >= 1
          /\ ReadsPrevRow(rows[k].filter)
          /\ rows[k + 1].ev = "post"
          /\ rows[k + 1].row = rows[k].row - 1
          /\ rows[k + 1].cur # rows[k].prev


\* C18: every row is post-processed exactly once.  When post-processing is
\* active (tRNS seen, PLTE seen, or depth < 8), a raster reconstruction of a
\* (sub)image of height h >= 1 that returned Ok has transformed every row
\* 0 .. h - 1 exactly once: row i - 1 right after the filter of row i, for
\* the rows 0 .. h - 2, and row h - 1 once after the last filter, also when
\* h = 1.
C18_EveryRowPostProcessedOnce ==
    (seen_trns \/ seen_ptle \/ png_info.depth < 8) =>
        \A b \in 1 .. Len(rows) : \A e \in b + 1 .. Len(rows) :
            (/\ rows[b].ev = "begin"
             /\ rows[e].ev = "end"
             /\ \A j \in b + 1 .. e - 1 : rows[j].ev \notin {"begin", "end"}) =>
                LET h == rows[b].row
                    Posts(r) == { j \in b + 1 .. e - 1 :
                                    rows[j].ev = "post" /\ rows[j].row = r }
                    FilterOf(r) == { j \in b + 1 .. e - 1 :
                                       rows[j].ev = "filter" /\ rows[j].row = r }
                IN /\ h >= 1
                   /\ \A r \in 0 .. h - 1 : Cardinality(Posts(r)) = 1
                   /\ \A r \in 0 .. h - 2 :
                         \A j \in Posts(r) : j - 1 \in FilterOf(r + 1)
                   /\ \A j \in Posts(h - 1) :
                         j = e - 1 /\ \A f \in FilterOf(h - 1) : f < j
                   /\ \A j \in b + 1 .. e - 1 :
                         rows[j].ev = "post" => rows[j].row \in 0 .. h - 1

\* a decode of an image of one row succeeded with post-processing active:
\* the row loop transformed nothing and the tail transformed row 0
C18_Witness ==
    /\ ret.op = "decode_into"
    /\ ret.ok
    /\ seen_trns \/ seen_ptle \/ png_info.depth < 8
    /\ png_info.height = 1
    /\ png_info.interlace_method = "Standard"
    /\ Len(rows) = 4
    /\ rows[1].ev = "begin" /\ rows[1].row = 1
    /\ rows[2].ev = "filter" /\ rows[2].row = 0
    /\ rows[3].ev = "post" /\ rows[3].row = 0 /\ rows[3].cur # rows[2].cur
    /\ rows[4].ev = "end"


\* C19: first-row specialisation.  On row 0 of every image or Adam7 subimage
\* handed to the reconstructor, filter byte Up is executed as None, Average
\* as AvgFirst and Paeth as PaethFirst, and None and Sub are executed
\* unchanged; on every row i >= 1 the filter executed is the one the filter
\* byte names, so AvgFirst and PaethFirst are not executed after row 0; and
\* no filter that reads the previous row is handed the placeholder of row 0.
C19_FirstRowSpecialisation ==
    \A k \in 1 .. Len(rows) :
        LET e == rows[k] IN
        /\ (e.ev = "begin" /\ k < Len(rows)) =>
              rows[k + 1].ev = "filter" /\ rows[k + 1].row = 0
        /\ (e.ev = "filter" /\ e.row = 0) =>
              /\ rows[k - 1].ev = "begin"
              /\ e.prev = << 0 >>
              /\ e.filter = (CASE e.byte = 0 -> "None"
                               [] e.byte = 1 -> "Sub"
                               [] e.byte = 2 -> "None"
                               [] e.byte = 3 -> "AvgFirst"
                               [] e.byte = 4 -> "PaethFirst")
        /\ (e.ev = "filter" /\ e.row >= 1) =>
              /\ rows[k - 1].ev # "begin"
              /\ e.filter = (CASE e.byte = 0 -> "None"
                               [] e.byte = 1 -> "Sub"
                               [] e.byte = 2 -> "Up"
                               [] e.byte = 3 -> "Average"
                               [] e.byte = 4 -> "Paeth")
        /\ (e.ev = "filter" /\ e.filter \in {"Up", "Average", "Paeth"}) =>
              e.row >= 1

\* an interlaced decode succeeded in which the first row of a subimage after
\* the first carried the filter byte Paeth and PaethFirst was executed
C19_Witness ==
    /\ ret.op = "decode_into"
    /\ ret.ok
    /\ \E k \in 3 .. Len(rows) :
          /\ rows[k].ev = "filter"
          /\ rows[k].row = 0
          /\ rows[k].byte = 4
          /\ rows[k].filter = "PaethFirst"


C21_InflateLimitSuffices ==
    ret.op = "inflate" =>
        LET w == png_info.width
            h == png_info.height
            c == CASE png_info.color \in {"Luma", "Palette"} -> 1
                   [] png_info.color = "LumaA" -> 2
                   [] png_info.color = "RGB" -> 3
                   [] png_info.color = "RGBA" -> 4
            depth_scale == IF png_info.depth = 16 THEN 2 ELSE 1
            Bytes(x, y) == ((x * c * png_info.depth + 7) \div 8 + 1) * y
            RECURSIVE Sum(_)
            Sum(p) == IF p > 7 THEN 0
                      ELSE (IF PassWidth(w, p) = 0 \/ PassHeight(h, p) = 0 THEN 0
                            ELSE Bytes(PassWidth(w, p), PassHeight(h, p)))
                           + Sum(p + 1)
            consumed == IF png_info.interlace_method = "Standard"
                        THEN Bytes(w, h) ELSE Sum(1)
        IN /\ (w + 1) * h * depth_scale * c + 4 * h >= consumed
           /\ inflate_limit(png_info) >= consumed
           /\ ret.ok
           /\ Len(out) = consumed

\* inflate returned the data of an interlaced image all seven passes of
\* which are non-empty, and the data is longer than the size hint
C21_Witness ==
    /\ ret.op = "inflate"
    /\ ret.ok
    /\ png_info.interlace_method = "Adam7"
    /\ \A p \in 1 .. 7 :
          PassWidth(png_info.width, p) > 0 /\ PassHeight(png_info.height, p) > 0
    /\ Len(out) > size_hint(png_info)


\* C22: the seen_headers latch.  seen_headers becomes true only in a call
\* whose header loop ended by reading an IEND chunk, or an fcTL chunk after
\* an fcTL chunk it had handled; a decode_headers call that fails returns an
\* error and leaves seen_headers false, so that get_info stays None, also
\* when seen_hdr is true; and once seen_headers is true every operation
\* leaves it true and leaves PngInfo as it is.
C22_SeenHeadersLatch ==
    [][/\ (~seen_headers /\ seen_headers') =>
              LET n == Len(history')
                  last == history'[n]
              IN /\ n > Len(history)
                 /\ last.ev = "frame"
                 /\ \/ last.tag = "IEND"
                    \/ /\ last.tag = "fcTL"
                       /\ \E j \in Len(history) + 1 .. n - 1 :
                             history'[j].ev = "run" /\ history'[j].tag = "fcTL"
       /\ (ret'.op = "decode_headers" /\ ~ret'.ok) =>
              /\ ~seen_headers'
              /\ ret'.err.kind # "none"
              /\ get_info(ret'.pre) = None
       /\ (ret'.op = "decode_headers" /\ ret'.ok) => seen_headers'
       /\ seen_headers => seen_headers' /\ png_info' = png_info
      ]_vars

\* decode_headers failed on a file that ends before its IEND chunk: the
\* whole input was read, IHDR was seen, an error was returned and
\* seen_headers is false
C22_Witness ==
    /\ ret.op = "decode_headers"
    /\ ~ret.ok
    /\ seen_hdr
    /\ ~seen_headers
    /\ position = Len(stream)
    /\ \A k \in 1 .. Len(history) : history[k].tag # "IEND"
    /\ history[Len(history)].ev = "run"
    /\ history[Len(history)].tag = "IDAT"

====
